---- MODULE Spec2Model ----
(***************************************************************************)
(* Build pipeline engine of elisa: the pipeline controller                 *)
(* (backend/src/services/orchestrator.ts), the judge phase                 *)
(* (backend/src/services/phases/judgePhase.ts) and the executor phase with *)
(* its DAG scheduler.  The controller and the judge are translated from    *)
(* their source; the executor, the scheduler and the plan, test and deploy *)
(* phases are called by the controller but their source is not part of the *)
(* tree, so they follow spec.md sections 4.4, 4.9 - 4.12.  The build       *)
(* memory (NuggetMemoryService.recordRun) is translated from its source.   *)
(*                                                                         *)
(* Spec is the whole run; it leaves out what the agents stream while a     *)
(* dispatch runs.  StreamSpec is the run through the execute phase with    *)
(* those events, ApproveSpec the run through the execute phase when every  *)
(* gate is approved, MemorySpec a history of recordRun calls.              *)
(*                                                                         *)
(* Four more parts of the program have a specification of their own, each  *)
(* over its own variables: GitSpec is the version store (GitService.commit *)
(* over a working tree, an index and a history), ToolSpec the agent loop   *)
(* with the tool executor (utils/toolExecutor.ts: resolvePath and the      *)
(* blocklist of toolBash), ChannelSpec the reconnecting WebSocket hook of  *)
(* the frontend, WorkspaceSpec the workspace directory with the            *)
(* stale-metadata cleanup (spec.md 4.2) and POST /api/workspace/reset.     *)
(*                                                                         *)
(* GateSpec is the execute phase when every dispatch fails, so that the    *)
(* workers of a batch reach their gates together; AnswerSpec is the run of *)
(* a chain of tasks whose agents ask questions, with gates and questions   *)
(* answered at any time.  AgentSpec is one dispatch (AgentRunner.execute   *)
(* with runAgentLoop and executeToolsParallel) with several tool calls per *)
(* turn, the caller's cancel and the timeout; ToolSpec is the same loop    *)
(* with one tool call per turn and the arguments of the tools.  SaveSpec   *)
(* is saveDb of the build memory with the file as a sequence of tokens and *)
(* a process that may stop; EditSpec is one MultiEdit call on a file.      *)
(***************************************************************************)
EXTENDS Integers, Sequences, FiniteSets, TLC

(* ------------------------------ bounds -------------------------------- *)

\* number of tasks of the plan
NumTasks == 4

\* number of dispatches that may fail in one run
MaxFailures == 3

\* events the agents stream and commits created in one run
MaxStream == 1

\* session ids build memory is written with
NumSessions == 3

\* recordRun calls of one history of the build memory
MaxWrites == 4

\* largest maxRecords a NuggetMemoryService is constructed with
MaxCap == 2

\* questions the agents of one run ask
MaxQuestions == 1

\* largest maxTurns a dispatch is called with
MaxAgentTurns == 2

\* tool calls the model requests in one turn
MaxToolCalls == 2

\* edits of one MultiEdit call
MaxEdits == 2

\* characters of the file before it is edited
MaxContent == 3

\* files of the workspace repository
NumFiles == 2

\* segments of the path argument of a tool call
MaxSegs == 3

\* words, blanks and signs of the command of a Bash tool call
MaxLexemes == 4

\* maxTurns of the dispatch whose tool calls are followed
LoopTurns == 2

\* WebSocket objects the hook creates before the page is left
MaxSockets == 16

(* ------------------------- program constants -------------------------- *)

MutantCap == 3 + 1

\* constants.ts: MAX_CONCURRENT_TASKS
MAX_CONCURRENT_TASKS == 3

\* spec.md 4.10 f: RETRY_LIMIT
RETRY_LIMIT == 2

\* judgePhase.ts readThreshold: default threshold
DefaultThreshold == 70

MutantTurnsIncrement == 10 + 5

\* constants.ts: MAX_TURNS_DEFAULT, MAX_TURNS_RETRY_INCREMENT
MAX_TURNS_DEFAULT == 25
MAX_TURNS_RETRY_INCREMENT == 10

\* new NuggetMemoryService(): maxRecords = 200
DefaultMaxRecords == 200

MutantRetries == 10 + 1

\* useWebSocket: MAX_RETRIES, BASE_DELAY_MS, MAX_DELAY_MS
MAX_RETRIES == 10
BASE_DELAY_MS == 1000
MAX_DELAY_MS == 30000

\* the session of the run, and the sessions build memory may hold
SessionId == 1
Sessions == 1 .. NumSessions

Tasks == 1 .. NumTasks

\* the files of the repository and what a file holds: 0 when it does not
\* exist, 1 when it holds the text an agent wrote
Files == 1 .. NumFiles
Contents == {0, 1}

\* the reserved task id "__judge__" of the judge override gate
JudgeGate == 0

\* gateResolver.current = null
NoResolver == -1

Waiters == Tasks \cup {JudgeGate}

VARIABLES
  pc,            \* position of Orchestrator.run
  state,         \* session.state
  aborted,       \* abortController.signal.aborted
  gateResolver,  \* gateResolver.current: NoResolver or the waiter whose promise it resolves
  response,      \* per waiter: the value its gate promise resolved with
  events,        \* what send() has published, in order
  deps,          \* task -> set of predecessor task ids
  status,        \* task -> pending | in_progress | done | failed
  reason,        \* task -> why it failed
  attempt,       \* task -> retry counter k of its running worker (0 when none)
  failures,      \* number of failed dispatches so far
  wpc,           \* task -> position of its worker
  calls,         \* task -> the dispatches the running execute phase made
                 \* for it: options and result
  batch,         \* tasks of the batch the main loop is awaiting
  judgeResult,   \* JudgeResult returned by judgePhase.execute
  judgeOverride, \* local judgeOverride of run()
  err,           \* message of the error caught by run()
  teardowns,     \* number of deployPhase.teardown() calls
  recordRunCalled, \* buildMemorySuggestions has called nuggetMemory.recordRun
  records,       \* db.records of the build memory file, oldest first
  written,       \* session ids of the recordRun calls that returned, in order;
                 \* the k-th call builds the record with id k
  maxRecords,    \* NuggetMemoryService.maxRecords
  worktree,      \* file -> content in the working tree of the repository
  index,         \* file -> content staged in the index
  head,          \* file -> content in the last commit
  history,       \* the commits GitService.commit created, oldest first
  commitCalls,   \* number of GitService.commit calls so far
  commitResult,  \* CommitInfo the last GitService.commit call returned
  lpc,           \* position of runAgentLoop
  turn,          \* turn of runAgentLoop
  toolCall,      \* the tool call of the current turn
  toolResult,    \* ToolResult executeTool returned for it
  toolMessage,   \* content of the tool message made of it
  pushes,        \* number of tool messages pushed to messages
  accessed,      \* the path the tool read or wrote, in segments
  spawned,       \* number of processes toolBash has spawned
  ws,            \* the WebSocket of the hook: none, connecting, open, closed
  retries,       \* retriesRef.current
  timer,         \* delay of the pending reconnect timer in ms, 0 when none
  sockets,       \* number of WebSocket objects created
  closes,        \* closes since the last open (or since the mount)
  delays,        \* delays of the timers set since the last open
  resetFrom,     \* retriesRef.current at the last open, -1 before any
  warned,        \* the give-up warning was logged
  tree,          \* the workspace directory W: its files and directories
  fsOp,          \* the last operation on W: none, write, cleanup, reset
  fsRemoved,     \* the files the last cleanup or reset removed
  resetBody,     \* the body of the last POST /api/workspace/reset
  resetReply,    \* the response of the last POST /api/workspace/reset
  questionResolvers, \* questionResolvers: task -> number of the question whose
                 \* resolver is stored under the task id, 0 when none
  invoked,       \* per question asked, how often its resolver was invoked
  gateInvoked,   \* per waiter, how often its gate resolver was invoked
  noops,         \* the kinds of answer calls that found no resolver so far
  apc,           \* position of AgentRunner.execute: idle, top (the while
                 \* test), model, tools, returned
  amax,          \* maxTurns of the dispatch
  aturn,         \* turn of runAgentLoop
  asignal,       \* abortController.signal.aborted of the dispatch
  cancelled,     \* the caller's abort signal fired during the dispatch
  modelCalls,    \* completions requested so far
  contents,      \* the content of each completion that returned, in order
  acontent,      \* content of the turn's completion
  finalSummary,  \* finalSummary of runAgentLoop
  submitted,     \* the tool calls of the turn, as handed to executeToolsParallel
  running,       \* indexes of the submitted tool calls that have not finished
  results,       \* the Map of executeToolsParallel: call id -> ToolResult
  turnMessages,  \* the tool messages pushed for the turn
  aresult,       \* the AgentResult execute returned
  ended,         \* the return statement that ended the dispatch
  memFile,       \* the document at the memory path, as a sequence of tokens
  tmpFile,       \* the document at the memory path + ".tmp"
  spc,           \* position of saveDb: idle, copy, copying, unlink, stopped
  saving,        \* db.records handed to saveDb
  before,        \* the document at the memory path when saveDb was called
  saves,         \* calls of saveDb that returned or were stopped
  efile,         \* the content of the file MultiEdit is called on
  ebefore,       \* its content when the last call was made
  edits,         \* args.edits of the last call
  eresult        \* the outcome of the last call

vars == <<pc, state, aborted, gateResolver, response, events, deps, status,
          reason, attempt, failures, wpc, calls, batch, judgeResult,
          judgeOverride, err, teardowns, recordRunCalled, records, written,
          maxRecords, worktree, index, head, history, commitCalls,
          commitResult, lpc, turn, toolCall, toolResult, toolMessage,
          pushes, accessed, spawned, ws, retries, timer, sockets, closes,
          delays, resetFrom, warned, tree, fsOp, fsRemoved,
          resetBody, resetReply, questionResolvers, invoked, gateInvoked,
          noops, apc, amax, aturn, asignal, cancelled, modelCalls, contents,
          acontent, finalSummary, submitted, running, results, turnMessages,
          aresult, ended, memFile, tmpFile, spc, saving, before, saves,
          efile, ebefore, edits, eresult>>

ctlVars == <<pc, state, judgeResult, judgeOverride, err, teardowns>>
taskVars == <<status, reason, attempt, failures, wpc, calls, batch>>
memVars == <<recordRunCalled, records, written, maxRecords>>
gitVars == <<worktree, index, head, history, commitCalls, commitResult>>
toolVars ==
  <<lpc, turn, toolCall, toolResult, toolMessage, pushes, accessed, spawned>>
wsVars == <<ws, retries, timer, sockets, closes, delays, resetFrom, warned>>
wkVars == <<tree, fsOp, fsRemoved, resetBody, resetReply>>
qVars == <<questionResolvers, invoked, gateInvoked, noops>>
agVars ==
  <<apc, amax, aturn, asignal, cancelled, modelCalls, contents, acontent,
    finalSummary, submitted, running, results, turnMessages, aresult, ended>>
svVars == <<memFile, tmpFile, spc, saving, before, saves>>
edVars == <<efile, ebefore, edits, eresult>>
sideVars ==
  <<gitVars, toolVars, wsVars, wkVars, qVars, agVars, svVars, edVars>>
runVars == <<pc, state, aborted, gateResolver, response, events, deps,
             taskVars, judgeResult, judgeOverride, err, teardowns>>

(* ------------------------------ messages ------------------------------ *)

\* A message is the sequence of its words.
Contains(msg, w) == \E i \in DOMAIN msg : msg[i] = w

\* orchestrator.ts:280
JudgeRejectedMessage ==
  <<"Build", "stopped:", "Nugget", "Judge", "score", "below", "threshold",
    "and", "override", "was", "rejected.">>

PlanInvalidMessage == <<"PLAN_INVALID">>
PhaseFailedMessage == <<"phase", "failed">>
GateRejectedMessage == <<"Build", "stopped", "by", "user">>
CancelledMessage == <<"Build", "cancelled">>

(* ------------------------------- events ------------------------------- *)

Ev(type) == [type |-> type]
TaskEv(type, t) == [type |-> type, task_id |-> t]
GateEv(t) == [type |-> "human_gate", task_id |-> t]
ErrorEv(msg) == [type |-> "error", message |-> msg, recoverable |-> FALSE]

IsTerminalEvent(e) ==
  \/ e.type = "session_complete"
  \/ e.type = "error" /\ ~e.recoverable

HasEvent(type) == \E i \in DOMAIN events : events[i].type = type

IsJudgeGate(e) == e.type = "human_gate" /\ e.task_id = JudgeGate

\* the human_gate a worker fires when the retries of its task are exhausted
RetryGateEv(t, n) == [type |-> "human_gate", task_id |-> t, retry_count |-> n]

TaskFailedEv(t, n) == [type |-> "task_failed", task_id |-> t, retry_count |-> n]

\* what a dispatch streams while it runs
StreamTypes == {"agent_output", "tool_use", "agent_question"}

\* the events of a task between its task_started and its completion
WorkTypes == StreamTypes \cup {"commit_created"}

CompletedEventsMutant(t, committed) ==
  <<TaskEv("task_completed", t)>> \o
  (IF committed THEN <<TaskEv("commit_created", t)>> ELSE <<>>)

\* a successful dispatch: commit_created when something was staged, then
\* task_completed
CompletedEvents(t, committed) ==
  (IF committed THEN <<TaskEv("commit_created", t)>> ELSE <<>>) \o
  <<TaskEv("task_completed", t)>>

(* ------------------------- dispatch options --------------------------- *)

\* String(k) of a one-digit k
NumberToString(k) == <<"0", "1", "2", "3", "4", "5", "6", "7", "8", "9">>[k + 1]

\* msg.includes(phrase), on words
ContainsPhrase(msg, phrase) ==
  \E i \in 0 .. (Len(msg) - Len(phrase)) :
    \A j \in 1 .. Len(phrase) : msg[i + j] = phrase[j]

\* the user prompt of a task without retry context
TaskPrompt == <<"#", "Task:", "Build", "UI">>

RetryHeaderMutant(k) ==
  IF k = 0 THEN <<>>
  ELSE <<"##", "Retry", "Attempt", NumberToString(k + 1), "A", "previous", "attempt",
         "failed.", "Skip", "orientation">>

\* the retry header: absent on the first attempt, "## Retry Attempt k" on
\* attempt k >= 1
RetryHeader(k) ==
  IF k = 0 THEN <<>>
  ELSE <<"##", "Retry", "Attempt", NumberToString(k), "A", "previous", "attempt",
         "failed.", "Skip", "orientation">>

\* the retry header is prepended to the user prompt
userPrompt(k) == RetryHeader(k) \o TaskPrompt

\* maxTurns of attempt k
maxTurns(k) == MAX_TURNS_DEFAULT + k * MAX_TURNS_RETRY_INCREMENT

\* the options of attempt k of a task and the AgentResult.success it returned
DispatchCall(k, success) ==
  [maxTurns |-> maxTurns(k), prompt |-> userPrompt(k), success |-> success]

RetriesLeftMutant(k) == k <= RETRY_LIMIT

\* another attempt is made while k < RETRY_LIMIT
RetriesLeft(k) == k < RETRY_LIMIT

(* ---------------------------- build memory ---------------------------- *)

\* records.slice(records.length - n) for records.length > n
LastN(recs, n) == SubSeq(recs, Len(recs) - n + 1, Len(recs))

\* buildRecord: a MemoryRecord has a fresh id (randomUUID) and the session id
\* of the input; the fresh id of a record is the number of the call
buildRecord(uuid, sessionId) == [id |-> uuid, sessionId |-> sessionId]

SessionIds(recs) == [i \in DOMAIN recs |-> recs[i].sessionId]

RecordRunKeepFirstMutant(recs, record, cap) ==
  LET pushed == IF \E i \in DOMAIN recs : recs[i].sessionId = record.sessionId
                THEN recs ELSE recs \o <<record>>
  IN  IF Len(pushed) > cap THEN LastN(pushed, cap) ELSE pushed

RecordRunDropNewestMutant(recs, record, cap) ==
  LET pushed == SelectSeq(recs, LAMBDA r : r.sessionId # record.sessionId) \o <<record>>
  IN  IF Len(pushed) > cap THEN SubSeq(pushed, 1, cap) ELSE pushed

\* NuggetMemoryService.recordRun on db.records: drop the records of the same
\* session, push the new one, keep the last maxRecords
recordRun(recs, record, cap) ==
  LET pushed == SelectSeq(recs, LAMBDA r : r.sessionId # record.sessionId) \o <<record>>
  IN  IF Len(pushed) > cap THEN LastN(pushed, cap) ELSE pushed

(* ------------------------------- tools -------------------------------- *)

\* A file name is the sequence of its characters, a path the sequence of its
\* segments; a path argument is absolute or relative.
DotDot == <<".", ".">>
Dot == <<".">>
Segments == {DotDot, Dot, <<"a">>, <<"a", "b">>, <<"x">>}

\* the workspace root W of the session: /w/a
WorkingDir == << <<"w">>, <<"a">> >>

RECURSIVE SeqsUpTo(_, _)
SeqsUpTo(S, n) ==
  IF n = 0 THEN {<<>>}
  ELSE LET shorter == SeqsUpTo(S, n - 1)
       IN  shorter \cup {Append(q, x) : q \in shorter, x \in S}

PathArgs == [abs : BOOLEAN, segs : SeqsUpTo(Segments, MaxSegs)]

\* path normalisation: "." is dropped, ".." drops the segment before it and
\* stays at the root
RECURSIVE Normalize(_, _)
Normalize(acc, segs) ==
  IF segs = <<>> THEN acc
  ELSE LET seg == Head(segs)
           next == IF seg = Dot THEN acc
                   ELSE IF seg = DotDot
                   THEN (IF acc = <<>> THEN acc ELSE SubSeq(acc, 1, Len(acc) - 1))
                   ELSE Append(acc, seg)
       IN  Normalize(next, Tail(segs))

\* path.resolve(workingDir, filePath), in segments
pathResolve(wd, p) == Normalize(<<>>, IF p.abs THEN p.segs ELSE wd \o p.segs)

\* the string of an absolute path: its characters
RECURSIVE PathString(_)
PathString(segs) ==
  IF segs = <<>> THEN <<>>
  ELSE <<"/">> \o Head(segs) \o PathString(Tail(segs))

startsWith(str, prefix) ==
  /\ Len(prefix) <= Len(str)
  /\ SubSeq(str, 1, Len(prefix)) = prefix

\* the path lies in the directory: the directory itself or below it
Inside(path, dir) == startsWith(path, dir)

EscapesError == <<"Path", "escapes", "working", "directory:">>

\* resolvePath: the resolved string must start with the string of the
\* working directory
resolvePath(p, wd) ==
  LET resolved == pathResolve(wd, p)
  IN  IF ~startsWith(PathString(resolved), PathString(wd))
      THEN [ok |-> FALSE, error |-> EscapesError, path |-> <<>>]
      ELSE [ok |-> TRUE, error |-> <<>>, path |-> resolved]

\* A command is the sequence of its lexemes: words (maximal runs of word
\* characters), runs of blanks (" ") and signs.
Words ==
  {"curl", "wget", "ssh", "scp", "git", "push", "remote", "pip", "npm",
   "install", "env", "printenv", "export", "echo", "HOME"}
Blank == " "
Lexemes == {"curl", "git", "push", "echo", "HOME", Blank, "$", "{"}

\* two neighbouring words would be one word, two runs of blanks one run
WellFormed(cmd) ==
  \A i \in 1 .. (Len(cmd) - 1) :
    /\ ~(cmd[i] \in Words /\ cmd[i + 1] \in Words)
    /\ ~(cmd[i] = Blank /\ cmd[i + 1] = Blank)

Commands == {cmd \in SeqsUpTo(Lexemes, MaxLexemes) : WellFormed(cmd)}

\* toolBash: the patterns \bword\b, \bword\s+word\b, \$\w+ and \$\{
BlockedWords == {"curl", "wget", "ssh", "scp", "env", "printenv", "export"}
BlockedPairs ==
  {<<"git", "push">>, <<"git", "remote">>, <<"pip", "install">>, <<"npm", "install">>}

BlockedNothingMutant(cmd) == FALSE

Blocked(cmd) ==
  \/ \E i \in DOMAIN cmd : cmd[i] \in BlockedWords
  \/ \E i \in 1 .. (Len(cmd) - 2) :
       cmd[i + 1] = Blank /\ <<cmd[i], cmd[i + 2]>> \in BlockedPairs
  \/ \E i \in 1 .. (Len(cmd) - 1) :
       cmd[i] = "$" /\ (cmd[i + 1] \in Words \/ cmd[i + 1] = "{")

BlockedError == <<"Command", "blocked", "by", "security", "policy:">>

PathTools == {"Read", "Write", "LS"}
ToolCalls ==
  [name : PathTools, path : PathArgs] \cup [name : {"Bash"}, command : Commands]

NoCall == [name |-> "none"]
NoResult == [success |-> FALSE, error |-> <<"none">>]
NoPath == << <<"none">> >>

\* executeTool wraps the returned string or the thrown error
ToolOk == [success |-> TRUE, error |-> <<>>]
ToolFailed(error) == [success |-> FALSE, error |-> error]

\* the content of the tool message runAgentLoop pushes for a result
ToolMessage(result) ==
  IF result.success THEN <<"output">> ELSE <<"Error:">> \o result.error

(* --------------------------- version store ---------------------------- *)

\* the CommitInfo returned when nothing was committed: sha '' is 0
EmptyCommit == [sha |-> 0, taskId |-> 0]

\* status.staged of git.status(): the files whose index entry differs from
\* the last commit
Staged(idx, hd) == {f \in Files : idx[f] # hd[f]}

CommitAlwaysMutant(wt, hd, hist, taskId) ==
  LET info == [sha |-> Len(hist) + 1, taskId |-> taskId]
  IN  [index |-> wt, head |-> wt, history |-> Append(hist, info), result |-> info]

\* GitService.commit on a repository: git add -A, then return empty when
\* nothing is staged, else commit the index; the sha of a commit is its
\* number in the history
commit(wt, hd, hist, taskId) ==
  LET added == wt
      info == [sha |-> Len(hist) + 1, taskId |-> taskId]
  IN  IF Staged(added, hd) = {}
      THEN [index |-> added, head |-> hd, history |-> hist, result |-> EmptyCommit]
      ELSE [index |-> added, head |-> added, history |-> Append(hist, info),
            result |-> info]

\* the worker after commit returned: commit_created when a commit was made
CommitEvents(info) ==
  IF info.sha # EmptyCommit.sha THEN <<TaskEv("commit_created", info.taskId)>> ELSE <<>>

(* ------------------------------- judge -------------------------------- *)

Min(a, b) == IF a < b THEN a ELSE b
Max(a, b) == IF a > b THEN a ELSE b

(* ---------------------------- live channel --------------------------- *)

RECURSIVE Pow2(_)
Pow2(n) == IF n = 0 THEN 1 ELSE 2 * Pow2(n - 1)

ReconnectDelayUncappedMutant(r) == BASE_DELAY_MS * Pow2(r)

\* ws.onclose: Math.min(BASE_DELAY_MS * 2 ** retriesRef.current, MAX_DELAY_MS)
reconnectDelay(r) == Min(BASE_DELAY_MS * Pow2(r), MAX_DELAY_MS)

RetriesAfterOpenMutant(r) == r

\* ws.onopen: retriesRef.current = 0
RetriesAfterOpen(r) == 0

(* ------------------------------- judge -------------------------------- *)

\* Number((x).toFixed(1)) of num/den, in tenths
Tenths(num, den) == (20 * num + den) \div (2 * den)

Count(st, s) == Cardinality({t \in Tasks : st[t] = s})

\* scoreTaskCompletion; scores are in tenths of a point
scoreTaskCompletion(st) ==
  LET max == 35
      total == NumTasks
      done == Count(st, "done")
      failed == Count(st, "failed")
      \* completionRatio - failPenalty, times 10 * total
      penalty10 == IF failed > 0 THEN Min(4 * total, 10 * failed) ELSE 0
      normalized10 == Max(0, 10 * done - penalty10)
  IN  IF total = 0
      THEN [id |-> "task_completion", score |-> max * 10, max_score |-> max,
            passed |-> TRUE]
      ELSE [id |-> "task_completion",
            score |-> Tenths(max * normalized10, 10 * total),
            max_score |-> max,
            passed |-> (done = total /\ failed = 0)]

\* Outcomes of scoreTesting, scoreRequirements and scoreBehavioralTests; they
\* depend on the spec, the test results and the workspace text, which are
\* inputs of the run.
TestingChecks ==
  { [id |-> "test_health", score |-> 250, max_score |-> 25, passed |-> TRUE],
    [id |-> "test_health", score |-> 0, max_score |-> 25, passed |-> FALSE] }

RequirementChecks ==
  { [id |-> "requirement_traceability", score |-> 250, max_score |-> 25, passed |-> TRUE],
    [id |-> "requirement_traceability", score |-> 125, max_score |-> 25, passed |-> FALSE] }

BehavioralChecks ==
  { [id |-> "behavioral_traceability", score |-> 150, max_score |-> 15, passed |-> TRUE],
    [id |-> "behavioral_traceability", score |-> 60, max_score |-> 15, passed |-> FALSE] }

RECURSIVE SumField(_, _)
SumField(checks, f) ==
  IF checks = <<>> THEN 0
  ELSE Head(checks)[f] + SumField(Tail(checks), f)

IsBlockingAnyFailMutant(check) == ~check.passed

\* judgePhase.ts:80-82: the filter that picks the blocking checks
IsBlocking(check) ==
  ~check.passed /\ check.id \in {"task_completion", "behavioral_traceability"}

\* the verdict: score >= threshold and no blocking issue
JudgeVerdict(score, threshold, blocking) == score >= threshold /\ blocking = {}

\* JudgePhase.execute from the four checks
Judge(checks, threshold) ==
  LET totalPossible == SumField(checks, "max_score")
      totalEarned10 == SumField(checks, "score")
      \* Math.round((totalEarned / totalPossible) * 100)
      score == IF totalPossible > 0
               THEN (20 * totalEarned10 + totalPossible) \div (2 * totalPossible)
               ELSE 100
      blocking == {i \in DOMAIN checks : IsBlocking(checks[i])}
  IN  [score |-> score, threshold |-> threshold,
       passed |-> JudgeVerdict(score, threshold, blocking),
       blocking_issues |-> {checks[i].id : i \in blocking},
       checks |-> checks]

NoJudge ==
  [score |-> 0, threshold |-> 0, passed |-> TRUE, blocking_issues |-> {},
   checks |-> <<>>]

(* --------------------------- DAG scheduler ---------------------------- *)

\* Plans the planner may hand to the executor: acyclic, predecessors are
\* earlier tasks (insertion order is the order of the ids).
Independent == [t \in Tasks |-> {}]
Chain == [t \in Tasks |-> IF t = 1 THEN {} ELSE {t - 1}]
Diamond ==
  [t \in Tasks |-> IF t = 1 THEN {}
                   ELSE IF t < NumTasks THEN {1}
                   ELSE 2 .. (NumTasks - 1)]

Plans == {Independent, Chain, Diamond}

ReadyMutant(st, t) ==
  st[t] = "pending" /\ \A p \in deps[t] : st[p] # "failed"

ReadyAgainMutant(st, t) ==
  st[t] \in {"pending", "failed"} /\ \A p \in deps[t] : st[p] = "done"

\* a task is ready when it is pending and all its predecessors are done
Ready(st, t) == st[t] = "pending" /\ \A p \in deps[t] : st[p] = "done"

ReadySet(st) == {t \in Tasks : Ready(st, t)}

\* the first cap ready tasks in insertion order
getReadyBatch(st, cap) ==
  {t \in ReadySet(st) : Cardinality({u \in ReadySet(st) : u < t}) < cap}

\* the tasks of a set in insertion order
RECURSIVE InOrder(_)
InOrder(S) ==
  IF S = {} THEN <<>>
  ELSE LET m == CHOOSE x \in S : \A y \in S : x <= y
       IN  <<m>> \o InOrder(S \ {m})

StartedEvents(S) == [i \in 1 .. Cardinality(S) |-> TaskEv("task_started", InOrder(S)[i])]

\* pending tasks with a failed predecessor
FailedPredecessor(st) ==
  {u \in Tasks : st[u] = "pending" /\ \E p \in deps[u] : st[p] = "failed"}

MarkFailed(st, S) == [u \in Tasks |-> IF u \in S THEN "failed" ELSE st[u]]

CascadeDirectMutant(st) == MarkFailed(st, FailedPredecessor(st))

CascadeNoneMutant(st) == st

\* dependents of a failed task become failed, and so do theirs
RECURSIVE cascadeFailed(_)
cascadeFailed(st) ==
  IF FailedPredecessor(st) = {} THEN st
  ELSE cascadeFailed(MarkFailed(st, FailedPredecessor(st)))

AllTerminal(st) == \A t \in Tasks : st[t] \in {"done", "failed"}

(* ---------------------------- controller ------------------------------ *)

NeedsOverrideMutant(jr) == jr.score < jr.threshold

\* orchestrator.ts:178  if (!judgeResult.passed)
NeedsOverride(jr) == ~jr.passed

JudgePayloadOverriddenMutant(jr, override) ==
  [score |-> jr.score, threshold |-> jr.threshold,
   blocking_issues |-> jr.blocking_issues,
   overridden |-> TRUE, raw_passed |-> jr.passed,
   passed |-> TRUE]

JudgePayloadMutant(jr, override) ==
  [score |-> jr.score, threshold |-> jr.threshold,
   blocking_issues |-> jr.blocking_issues,
   overridden |-> override, raw_passed |-> jr.passed,
   passed |-> jr.passed]

\* orchestrator.ts:248-253: the judge payload of session_complete
JudgePayload(jr, override) ==
  [score |-> jr.score, threshold |-> jr.threshold,
   blocking_issues |-> jr.blocking_issues,
   overridden |-> override, raw_passed |-> jr.passed,
   passed |-> (jr.passed \/ override)]

RejectedEventsMutant(msg) == <<ErrorEv(msg)>>

\* orchestrator.ts:279-281: a rejected override only throws, it sends nothing
RejectedEvents(msg) == <<>>

ReviewStateMutant == "judging"

\* orchestrator.ts:266  this.session.state = 'reviewing'
ReviewState == "reviewing"

CatchStateMutant == "error"

\* orchestrator.ts:190  this.session.state = 'done'
CatchState == "done"

CatchEventsMutant(msg) == <<>>

CatchEventsTwiceMutant(msg) == <<ErrorEv(msg), ErrorEv(msg)>>

\* orchestrator.ts:191-194: the catch block sends error, recoverable: false
CatchEvents(msg) == <<ErrorEv(msg)>>

OverrideDecisionMutant(resp) == "approved"

\* orchestrator.ts:279-282: the answer that lets requestJudgeOverride return
OverrideDecision(resp) == resp

\* the record of dispatches is local to executePhase.execute: it is gone when
\* the call returns or throws
NoCalls == [t \in Tasks |-> <<>>]

RespondToGateKeepsSlotMutant(resolver, resp, inv, answer) ==
  IF resolver # NoResolver
  THEN [response |-> [resp EXCEPT ![resolver] = answer],
        gateResolver |-> resolver,
        invoked |-> [inv EXCEPT ![resolver] = @ + 1]]
  ELSE [response |-> resp, gateResolver |-> resolver, invoked |-> inv]

\* Orchestrator.respondToGate: call the resolver in the slot and empty the
\* slot; nothing when the slot is empty
respondToGate(resolver, resp, inv, answer) ==
  IF resolver # NoResolver
  THEN [response |-> [resp EXCEPT ![resolver] = answer],
        gateResolver |-> NoResolver,
        invoked |-> [inv EXCEPT ![resolver] = @ + 1]]
  ELSE [response |-> resp, gateResolver |-> resolver, invoked |-> inv]

\* Orchestrator.respondToQuestion: call the resolver stored under the task
\* id and delete the entry; nothing when there is none
respondToQuestion(resolvers, inv, taskId) ==
  IF resolvers[taskId] # 0
  THEN [questionResolvers |-> [resolvers EXCEPT ![taskId] = 0],
        invoked |-> [inv EXCEPT ![resolvers[taskId]] = @ + 1]]
  ELSE [questionResolvers |-> resolvers, invoked |-> inv]

\* the session, the plan and the controller before run()
RunInit ==
  /\ pc = "idle"
  /\ state = "idle"
  /\ aborted = FALSE
  /\ gateResolver = NoResolver
  /\ response = [w \in Waiters |-> "none"]
  /\ events = <<>>
  /\ deps \in Plans
  /\ status = [t \in Tasks |-> "pending"]
  /\ reason = [t \in Tasks |-> "none"]
  /\ attempt = [t \in Tasks |-> 0]
  /\ failures = 0
  /\ wpc = [t \in Tasks |-> "none"]
  /\ calls = NoCalls
  /\ batch = {}
  /\ judgeResult = NoJudge
  /\ judgeOverride = FALSE
  /\ err = <<>>
  /\ teardowns = 0

\* new NuggetMemoryService() on no memory file
MemoryIdle ==
  /\ recordRunCalled = FALSE
  /\ records = <<>>
  /\ written = <<>>
  /\ maxRecords = DefaultMaxRecords

\* the workspace repository after initRepo: everything is committed
GitIdle ==
  /\ worktree = [f \in Files |-> 0]
  /\ index = worktree
  /\ head = worktree
  /\ history = <<>>
  /\ commitCalls = 0
  /\ commitResult = EmptyCommit

\* no dispatch is followed
ToolIdle ==
  /\ lpc = "idle"
  /\ turn = 0
  /\ toolCall = NoCall
  /\ toolResult = NoResult
  /\ toolMessage = <<>>
  /\ pushes = 0
  /\ accessed = NoPath
  /\ spawned = 0

\* the hook is not mounted
ChannelIdle ==
  /\ ws = "none"
  /\ retries = 0
  /\ timer = 0
  /\ sockets = 0
  /\ closes = 0
  /\ delays = <<>>
  /\ resetFrom = -1
  /\ warned = FALSE

(* ------------------------ workspace directory ------------------------- *)

\* A path is the sequence of its segments below W.
SrcDir == <<"src">>
TestsDir == <<"tests">>
ElisaDir == <<".elisa">>
CommsDir == <<".elisa", "comms">>
ContextDir == <<".elisa", "context">>
StatusDir == <<".elisa", "status">>
LogsDir == <<".elisa", "logs">>

\* the files a workspace of the model may hold: a generated source and a
\* generated test, one file per metadata directory, the session log, a design
\* file
WorkspaceFiles ==
  { <<"src", "main.js">>, <<"tests", "main.test.js">>,
    <<".elisa", "comms", "task-old_summary.md">>,
    <<".elisa", "context", "nugget_context.md">>,
    <<".elisa", "status", "current_state.json">>,
    <<".elisa", "logs", "session.log">>,
    <<"workspace.json">> }

Absent == "absent"
FileContents == {"stale", "fresh"}

\* p is d or lies below d
AtOrUnder(p, d) == Len(d) <= Len(p) /\ SubSeq(p, 1, Len(d)) = d

\* the directories above p
Parents(p) == {SubSeq(p, 1, k) : k \in 1 .. (Len(p) - 1)}

FilesOf(fs) == {p \in WorkspaceFiles : fs.files[p] # Absent}

\* a fresh workspace: W exists and is empty
FreshTree == [files |-> [p \in WorkspaceFiles |-> Absent], dirs |-> {}]

\* fs.existsSync(path)
existsSync(fs, p) == p \in fs.dirs \/ p \in FilesOf(fs)

\* fs.rmSync(target, {recursive: true, force: true})
rmSync(fs, target) ==
  [files |-> [p \in WorkspaceFiles |->
                IF AtOrUnder(p, target) THEN Absent ELSE fs.files[p]],
   dirs |-> {d \in fs.dirs : ~AtOrUnder(d, target)}]

\* fs.mkdirSync(dir, {recursive: true})
mkdirSync(fs, d) == [fs EXCEPT !.dirs = @ \cup {d} \cup Parents(d)]

\* fs.mkdirSync(dirname, {recursive: true}); fs.writeFileSync(path, content)
writeFileSync(fs, p, c) ==
  [files |-> [fs.files EXCEPT ![p] = c], dirs |-> fs.dirs \cup Parents(p)]

MetadataDirsWithLogsMutant == <<CommsDir, ContextDir, StatusDir, LogsDir>>

\* the three metadata directories of W/.elisa
MetadataDirs == <<CommsDir, ContextDir, StatusDir>>

\* stale-metadata cleanup: remove all files under comms/, context/ and
\* status/, recreate the directories
RECURSIVE CleanStaleMetadata(_, _)
CleanStaleMetadata(fs, metaDirs) ==
  IF metaDirs = <<>> THEN fs
  ELSE CleanStaleMetadata(mkdirSync(rmSync(fs, Head(metaDirs)), Head(metaDirs)),
                          Tail(metaDirs))

ResetTargetsWithLogsMutant ==
  <<SrcDir, TestsDir, CommsDir, ContextDir, StatusDir, LogsDir>>

\* teachingEngine.ts:337-343: const targets
ResetTargets == <<SrcDir, TestsDir, CommsDir, ContextDir, StatusDir>>

\* requests of POST /api/workspace/reset: workspace_path is missing from the
\* body, is refused by validateWorkspacePath, names no directory, or is W
ResetPaths == {"missing", "invalid", "notfound", "W"}
ResetModes == {"clean_generated", "clean", "continue"}

\* teachingEngine.ts:344-350: the loop over the targets
RECURSIVE RemoveTargets(_, _, _)
RemoveTargets(fs, targets, removed) ==
  IF targets = <<>> THEN [fs |-> fs, removed |-> removed]
  ELSE IF existsSync(fs, Head(targets))
       THEN RemoveTargets(rmSync(fs, Head(targets)), Tail(targets),
                          Append(removed, Head(targets)))
       ELSE RemoveTargets(fs, Tail(targets), removed)

NoBody == [workspace_path |-> "none", mode |-> "none"]
NoReply == [status |-> 0, mode |-> "none", removed |-> <<>>]
Refused(code, mode) == [status |-> code, mode |-> mode, removed |-> <<>>]

\* router.post('/reset'): the response and the workspace it leaves
Reset(fs, workspace_path, mode) ==
  IF workspace_path = "missing" THEN [fs |-> fs, reply |-> Refused(400, mode)]
  ELSE IF mode # "clean_generated" THEN [fs |-> fs, reply |-> Refused(400, mode)]
  ELSE IF workspace_path = "invalid" THEN [fs |-> fs, reply |-> Refused(400, mode)]
  ELSE IF workspace_path = "notfound" THEN [fs |-> fs, reply |-> Refused(404, mode)]
  ELSE LET done == RemoveTargets(fs, ResetTargets, <<>>)
       IN  [fs |-> done.fs,
            reply |-> [status |-> 200, mode |-> mode, removed |-> done.removed]]

WorkspaceIdle ==
  /\ tree = FreshTree
  /\ fsOp = "none"
  /\ fsRemoved = {}
  /\ resetBody = NoBody
  /\ resetReply = NoReply

(* ------------------------------ MultiEdit ----------------------------- *)

\* a string is the sequence of its characters; the characters are a and b
\* (none of them is the $ of a replacement pattern)
RECURSIVE StringsOf(_)
StringsOf(n) ==
  IF n = 0 THEN {<<>>}
  ELSE LET shorter == StringsOf(n - 1)
       IN  shorter \cup {Append(str, c) : str \in shorter, c \in {"a", "b"}}

\* old_string and new_string of an edit
OldStrings == {<<"a">>, <<"b">>, <<"a", "b">>}
NewStrings == {<<>>, <<"b">>, <<"b", "a">>}
EditsOf(n) ==
  [1 .. n -> [old_string : OldStrings, new_string : NewStrings]]

\* content.indexOf(str) from position k on, -1 when there is none
RECURSIVE IndexFrom(_, _, _)
IndexFrom(content, str, k) ==
  IF k + Len(str) > Len(content) THEN -1
  ELSE IF SubSeq(content, k + 1, k + Len(str)) = str THEN k
  ELSE IndexFrom(content, str, k + 1)

\* content.includes(str)
includes(content, str) == IndexFrom(content, str, 0) >= 0

\* content.replace(old, new) with a string pattern: the first occurrence
replace(content, old, new) ==
  LET k == IndexFrom(content, old, 0)
  IN  IF k < 0 THEN content
      ELSE SubSeq(content, 1, k) \o new \o
           SubSeq(content, k + Len(old) + 1, Len(content))

\* the loop of toolMultiEdit from edit i on: the content after the loop, or
\* the throw at the first old_string that is not found
RECURSIVE EditLoop(_, _, _)
EditLoop(content, es, i) ==
  IF i > Len(es) THEN [thrown |-> FALSE, content |-> content]
  ELSE IF ~includes(content, es[i].old_string)
  THEN [thrown |-> TRUE, content |-> content]
  ELSE EditLoop(replace(content, es[i].old_string, es[i].new_string), es, i + 1)

ToolMultiEditWritesPartialMutant(content, es) ==
  LET loop == EditLoop(content, es, 1)
  IN  [success |-> ~loop.thrown, file |-> loop.content]

\* toolMultiEdit on an existing file: the outcome and the file after the call
toolMultiEdit(content, es) ==
  LET loop == EditLoop(content, es, 1)
  IN  IF loop.thrown
      THEN [success |-> FALSE, file |-> content]
      ELSE [success |-> TRUE, file |-> loop.content]

NoEdit == [success |-> FALSE, file |-> <<"none">>]

\* a file to edit and no call so far
EditIdle ==
  /\ efile = <<"a", "b">>
  /\ ebefore = <<>>
  /\ edits = <<>>
  /\ eresult = NoEdit

(* --------------------------- the memory file -------------------------- *)

\* the tokens of a document
OpenToken == [t |-> "{"]
CloseToken == [t |-> "}"]
RecordToken(r) == [t |-> "record", id |-> r.id, sessionId |-> r.sessionId]

\* no file at the path
NoFile == <<[t |-> "absent"]>>

\* JSON.stringify(db, null, 2) of { version: 1, records }
stringify(recs) ==
  <<OpenToken>> \o [i \in DOMAIN recs |-> RecordToken(recs[i])] \o <<CloseToken>>

\* JSON.parse accepts a document that is complete
Parses(doc) ==
  /\ Len(doc) >= 2
  /\ doc[1] = OpenToken
  /\ doc[Len(doc)] = CloseToken
  /\ \A i \in 2 .. Len(doc) - 1 : doc[i].t = "record"

\* loadDb: the records of the file; none when the file is absent, corrupt or
\* does not parse
loadDb(doc) ==
  IF doc # NoFile /\ Parses(doc)
  THEN [i \in 1 .. Len(doc) - 2 |->
          [id |-> doc[i + 1].id, sessionId |-> doc[i + 1].sessionId]]
  ELSE <<>>

\* no save is under way and there is no memory file
SaveIdle ==
  /\ memFile = NoFile
  /\ tmpFile = NoFile
  /\ spc = "idle"
  /\ saving = <<>>
  /\ before = NoFile
  /\ saves = 0

(* ------------------------------ dispatch ------------------------------ *)

\* summaries of an AgentResult, as sequences of words
CancelledSummary == <<"Agent", "was", "cancelled">>
TimedOutSummary == <<"Agent", "timed", "out">>
AbortedMessage == <<"Request", "was", "aborted.">>
ApiErrorMessage == <<"Connection", "error.">>
NoOutput == <<"No", "output">>

\* the content of the completion of a turn; <<>> is the empty string
Content(k) == <<"content", NumberToString(k)>>
TurnContents(k) == {<<>>, Content(k)}

\* the tool tools of a turn: n tools, the i-th with id n + 1 - i, each with
\* whether its tool will throw
TurnCalls(n) ==
  {[i \in 1 .. n |-> [id |-> n + 1 - i, throws |-> f[i]]] :
     f \in [1 .. n -> BOOLEAN]}

\* executeTool: the ToolResult of a call; from is the call it was made for
executeTool(tools, i) ==
  [success |-> ~tools[i].throws, from |-> i]

NoResults == <<>>

SetResultFirstIdMutant(map, tools, i, result) ==
  [id \in DOMAIN map \cup {tools[1].id} |->
     IF id = tools[1].id THEN result ELSE map[id]]

\* results.set(tool.id, result)
SetResult(map, tools, i, result) ==
  [id \in DOMAIN map \cup {tools[i].id} |->
     IF id = tools[i].id THEN result ELSE map[id]]

\* runAgentLoop: the tool message pushed for a call from results.get(tc.id)
TurnMessage(map, call) ==
  [tool_call_id |-> call.id,
   content |-> IF call.id \in DOMAIN map /\ map[call.id].success
               THEN <<"output", NumberToString(map[call.id].from)>>
               ELSE <<"Error:">>]

TurnMessagesOf(map, tools) ==
  [i \in DOMAIN tools |-> TurnMessage(map, tools[i])]

NextSummaryFirstMutant(summary, content) ==
  IF summary # <<>> THEN summary ELSE content

\* runAgentLoop: if (content) finalSummary = content
NextSummary(summary, content) ==
  IF content # <<>> THEN content ELSE summary

NoAgentResult == [success |-> FALSE, summary |-> <<"none">>]
AgentResult(success, summary) == [success |-> success, summary |-> summary]

\* no dispatch is running
AgentIdle ==
  /\ apc = "idle"
  /\ amax = 0
  /\ aturn = 0
  /\ asignal = FALSE
  /\ cancelled = FALSE
  /\ modelCalls = 0
  /\ contents = <<>>
  /\ acontent = <<>>
  /\ finalSummary = <<>>
  /\ submitted = <<>>
  /\ running = {}
  /\ results = NoResults
  /\ turnMessages = <<>>
  /\ aresult = NoAgentResult
  /\ ended = "none"

\* no question was asked and no answer was given
AnswerIdle ==
  /\ questionResolvers = [t \in Tasks |-> 0]
  /\ invoked = <<>>
  /\ gateInvoked = [w \in Waiters |-> 0]
  /\ noops = {}

Init ==
  /\ RunInit /\ MemoryIdle /\ GitIdle /\ ToolIdle /\ ChannelIdle
  /\ WorkspaceIdle /\ AnswerIdle /\ AgentIdle /\ SaveIdle /\ EditIdle

\* run(spec) is called
Run ==
  /\ pc = "idle"
  /\ pc' = "plan"
  /\ UNCHANGED <<state, aborted, gateResolver, response, events, deps,
                 taskVars, judgeResult, judgeOverride, err, teardowns,
                 memVars, sideVars>>

\* a phase throws: control passes to the catch block of run()
Throw(msg) ==
  /\ pc' = "catch"
  /\ err' = msg

\* planPhase.execute
Plan ==
  /\ pc = "plan"
  /\ state' = "planning"
  /\ \/ /\ events' = events \o <<Ev("planning_started"), Ev("plan_ready")>>
        /\ pc' \in {"portals", "execute"}
        /\ err' = err
     \/ /\ events' = events \o <<Ev("planning_started")>>
        /\ Throw(PlanInvalidMessage)
  /\ UNCHANGED <<aborted, gateResolver, response, deps, taskVars,
                 judgeResult, judgeOverride, teardowns, memVars, sideVars>>

\* deployPhase.initializePortals, when shouldDeployPortals
InitializePortals ==
  /\ pc = "portals"
  /\ \/ pc' = "execute" /\ err' = err
     \/ Throw(PhaseFailedMessage)
  /\ UNCHANGED <<state, aborted, gateResolver, response, events, deps,
                 taskVars, judgeResult, judgeOverride, teardowns, memVars,
                 sideVars>>

(* ------------------------------ executor ------------------------------ *)

Executing == pc = "execute"

\* the main loop pulls the next ready batch and spawns one worker per task:
\* each marks its task in_progress and emits task_started
PullBatch ==
  /\ Executing
  /\ ~aborted
  /\ batch = {}
  /\ ReadySet(status) # {}
  /\ LET b == getReadyBatch(status, MAX_CONCURRENT_TASKS)
     IN  /\ batch' = b
         /\ status' = [t \in Tasks |-> IF t \in b THEN "in_progress" ELSE status[t]]
         /\ wpc' = [t \in Tasks |-> IF t \in b THEN "dispatch" ELSE wpc[t]]
         /\ events' = events \o StartedEvents(b)
  /\ state' = "executing"
  /\ UNCHANGED <<pc, aborted, gateResolver, response, deps, reason, attempt,
                 failures, calls, judgeResult, judgeOverride, err, teardowns,
                 memVars, sideVars>>

\* AgentResult.success of a dispatch; failures are bounded by MaxFailures
DispatchOutcomes == IF failures < MaxFailures THEN BOOLEAN ELSE {TRUE}

\* a dispatch of the task's agent returns: success finishes the task, a
\* failure is retried while retries are left and else goes to the gate
DispatchReturns(t, success, committed) ==
  /\ questionResolvers[t] = 0
  /\ calls' = [calls EXCEPT ![t] = Append(@, DispatchCall(attempt[t], success))]
  /\ IF success
     THEN /\ status' = [status EXCEPT ![t] = "done"]
          /\ wpc' = [wpc EXCEPT ![t] = "finished"]
          /\ batch' = batch \ {t}
          /\ events' = events \o CompletedEvents(t, committed)
          /\ attempt' = [attempt EXCEPT ![t] = 0]
          /\ failures' = failures
     ELSE /\ failures' = failures + 1
          /\ IF RetriesLeft(attempt[t])
             THEN /\ attempt' = [attempt EXCEPT ![t] = @ + 1]
                  /\ UNCHANGED <<status, wpc, batch, events>>
             ELSE /\ wpc' = [wpc EXCEPT ![t] = "gate"]
                  /\ UNCHANGED <<status, batch, events, attempt>>
  /\ UNCHANGED <<pc, state, aborted, gateResolver, response, deps, reason,
                 judgeResult, judgeOverride, err, teardowns, memVars, sideVars>>

\* one dispatch of the task's agent returns; nothing was staged
Dispatch(t) ==
  /\ Executing
  /\ wpc[t] = "dispatch"
  /\ \E success \in DispatchOutcomes : DispatchReturns(t, success, FALSE)

\* one dispatch of the task's agent returns a failure, whatever the number
\* of failures so far
DispatchFailing(t) ==
  /\ Executing
  /\ wpc[t] = "dispatch"
  /\ DispatchReturns(t, FALSE, FALSE)

\* number of streamed events and commits so far
StreamCount ==
  Cardinality({i \in DOMAIN events : events[i].type \in WorkTypes})

\* one dispatch of the task's agent returns success with staged changes
DispatchCommitted(t) ==
  /\ Executing
  /\ wpc[t] = "dispatch"
  /\ StreamCount < MaxStream
  /\ DispatchReturns(t, TRUE, TRUE)

\* the running agent of a task streams output, uses a tool or asks a question
AgentStream(t) ==
  /\ Executing
  /\ wpc[t] = "dispatch"
  /\ StreamCount < MaxStream
  /\ \E type \in StreamTypes : events' = Append(events, TaskEv(type, t))
  /\ UNCHANGED <<pc, state, aborted, gateResolver, response, deps, taskVars,
                 judgeResult, judgeOverride, err, teardowns, memVars,
                 sideVars>>

\* retries exhausted: fire human_gate and block on the gate resolver
FireGate(t) ==
  /\ Executing
  /\ wpc[t] = "gate"
  /\ events' = events \o <<RetryGateEv(t, attempt[t] + 1)>>
  /\ gateResolver' = t
  /\ wpc' = [wpc EXCEPT ![t] = "gateWait"]
  /\ UNCHANGED <<pc, state, aborted, response, deps, status, reason, attempt,
                 failures, calls, batch, judgeResult, judgeOverride, err,
                 teardowns, memVars, sideVars>>

\* the gate was answered: approve marks the task failed and cascades to its
\* dependents, reject propagates an error to the controller
GateResume(t) ==
  /\ Executing
  /\ wpc[t] = "gateWait"
  /\ response[t] # "none"
  /\ IF response[t] = "approved"
     THEN /\ status' = cascadeFailed([status EXCEPT ![t] = "failed"])
          /\ reason' = [u \in Tasks |->
                          IF u = t THEN "retries_exhausted"
                          ELSE IF status'[u] = "failed" /\ status[u] # "failed"
                          THEN "predecessor_failed"
                          ELSE reason[u]]
          /\ wpc' = [wpc EXCEPT ![t] = "finished"]
          /\ batch' = batch \ {t}
          /\ events' = events \o <<TaskFailedEv(t, attempt[t] + 1)>>
          /\ attempt' = [attempt EXCEPT ![t] = 0]
          /\ UNCHANGED <<pc, err>>
          /\ calls' = calls
     ELSE /\ Throw(GateRejectedMessage)
          /\ calls' = NoCalls
          /\ UNCHANGED <<status, reason, wpc, batch, events, attempt>>
  /\ UNCHANGED <<state, aborted, gateResolver, response, deps, failures,
                 judgeResult, judgeOverride, teardowns, memVars, sideVars>>

\* the cancel signal: in-flight dispatches are aborted, nothing more is
\* scheduled and the phase ends with an error
ExecuteCancelled ==
  /\ Executing
  /\ aborted
  /\ Throw(CancelledMessage)
  /\ calls' = NoCalls
  /\ UNCHANGED <<state, aborted, gateResolver, response, events, deps,
                 status, reason, attempt, failures, wpc, batch, judgeResult,
                 judgeOverride, teardowns, memVars, sideVars>>

\* every task is terminal: executePhase.execute returns
ExecuteDone ==
  /\ Executing
  /\ ~aborted
  /\ batch = {}
  /\ AllTerminal(status)
  /\ pc' = "test"
  /\ calls' = NoCalls
  /\ UNCHANGED <<state, aborted, gateResolver, response, events, deps,
                 status, reason, attempt, failures, wpc, batch, judgeResult,
                 judgeOverride, err, teardowns, memVars, sideVars>>

(* ----------------------- test, deploy and judge ----------------------- *)

\* testPhase.execute
Test ==
  /\ pc = "test"
  /\ state' = "testing"
  /\ \/ /\ events' \in {events, events \o <<Ev("test_phase_complete")>>}
        /\ pc' = "deploy"
        /\ err' = err
     \/ /\ events' = events
        /\ Throw(PhaseFailedMessage)
  /\ UNCHANGED <<aborted, gateResolver, response, deps, taskVars,
                 judgeResult, judgeOverride, teardowns, memVars, sideVars>>

\* deployWeb / deployPortals / deployHardware, as the predicates decide
Deploy ==
  /\ pc = "deploy"
  /\ \/ /\ UNCHANGED <<state, events, err>>
        /\ pc' = "judge"
     \/ /\ state' = "deploying"
        /\ events' = events \o <<Ev("deploy_started"), Ev("deploy_complete")>>
        /\ pc' = "judge"
        /\ err' = err
     \/ /\ state' = "deploying"
        /\ events' = events \o <<Ev("deploy_started")>>
        /\ Throw(PhaseFailedMessage)
  /\ UNCHANGED <<aborted, gateResolver, response, deps, taskVars,
                 judgeResult, judgeOverride, teardowns, memVars, sideVars>>

\* judgePhase.execute and the test of its verdict in run()
JudgeExecute ==
  /\ pc = "judge"
  /\ \E tc \in TestingChecks, rc \in RequirementChecks, bc \in BehavioralChecks :
       LET jr == Judge(<<scoreTaskCompletion(status), tc, rc, bc>>, DefaultThreshold)
       IN  /\ judgeResult' = jr
           /\ events' = events \o
                <<[type |-> "judge_started", threshold |-> DefaultThreshold],
                  [type |-> "judge_result", score |-> jr.score, passed |-> jr.passed]>>
           /\ pc' = IF NeedsOverride(jr) THEN "judgeGate" ELSE "complete"
  /\ UNCHANGED <<state, aborted, gateResolver, response, deps, taskVars,
                 judgeOverride, err, teardowns, memVars, sideVars>>

\* requestJudgeOverride up to the await of send
RequestJudgeOverride ==
  /\ pc = "judgeGate"
  /\ state' = ReviewState
  /\ events' = events \o <<GateEv(JudgeGate)>>
  /\ pc' = "judgeGateRegister"
  /\ UNCHANGED <<aborted, gateResolver, response, deps, taskVars,
                 judgeResult, judgeOverride, err, teardowns, memVars, sideVars>>

\* requestJudgeOverride: the promise executor stores resolve in the slot
JudgeGateRegister ==
  /\ pc = "judgeGateRegister"
  /\ gateResolver' = JudgeGate
  /\ pc' = "judgeGateWait"
  /\ UNCHANGED <<state, aborted, response, events, deps, taskVars,
                 judgeResult, judgeOverride, err, teardowns, memVars, sideVars>>

\* requestJudgeOverride after the promise resolved
JudgeGateResume ==
  /\ pc = "judgeGateWait"
  /\ response[JudgeGate] # "none"
  /\ gateResolver' = NoResolver
  /\ IF OverrideDecision(response[JudgeGate]) = "approved"
     THEN /\ judgeOverride' = TRUE
          /\ pc' = "complete"
          /\ UNCHANGED <<err, events>>
     ELSE /\ Throw(JudgeRejectedMessage)
          /\ events' = events \o RejectedEvents(JudgeRejectedMessage)
          /\ judgeOverride' = judgeOverride
  /\ UNCHANGED <<state, aborted, response, deps, taskVars,
                 judgeResult, teardowns, memVars, sideVars>>

(* ------------------- completion, failure and teardown ------------------ *)

CompleteMutant ==
  /\ pc = "complete"
  /\ state' = "done"
  /\ pc' = "sessionComplete"
  /\ UNCHANGED <<aborted, gateResolver, response, events, deps, taskVars,
                 judgeResult, judgeOverride, err, teardowns, memVars, sideVars>>

\* Orchestrator.complete up to buildMemorySuggestions: the state becomes done
\* and the run is recorded; a recordRun that throws is swallowed
Complete ==
  /\ pc = "complete"
  /\ state' = "done"
  /\ recordRunCalled' = TRUE
  /\ \/ /\ records' = recordRun(records, buildRecord(Len(written) + 1, SessionId),
                             maxRecords)
        /\ written' = Append(written, SessionId)
     \/ UNCHANGED <<records, written>>
  /\ pc' = "sessionComplete"
  /\ UNCHANGED <<aborted, gateResolver, response, events, deps, taskVars,
                 judgeResult, judgeOverride, err, teardowns, maxRecords,
                 sideVars>>

\* Orchestrator.complete: send session_complete
SessionComplete ==
  /\ pc = "sessionComplete"
  /\ events' = events \o
       <<[type |-> "session_complete", judge |-> JudgePayload(judgeResult, judgeOverride)]>>
  /\ pc' = "finally"
  /\ UNCHANGED <<state, aborted, gateResolver, response, deps, taskVars,
                 judgeResult, judgeOverride, err, teardowns, memVars, sideVars>>

\* the catch block of run()
Catch ==
  /\ pc = "catch"
  /\ state' = CatchState
  /\ events' = events \o CatchEvents(err)
  /\ pc' = "finally"
  /\ UNCHANGED <<aborted, gateResolver, response, deps, taskVars,
                 judgeResult, judgeOverride, err, teardowns, memVars, sideVars>>

\* the finally block of run()
Finally ==
  /\ pc = "finally"
  /\ teardowns' = teardowns + 1
  /\ pc' = "returned"
  /\ UNCHANGED <<state, aborted, gateResolver, response, events, deps,
                 taskVars, judgeResult, judgeOverride, err, memVars, sideVars>>

(* --------------------------- public surface --------------------------- *)

Active == pc \notin {"idle", "returned"}

\* Orchestrator.cancel
Cancel ==
  /\ Active
  /\ aborted' = TRUE
  /\ UNCHANGED <<pc, state, gateResolver, response, events, deps, taskVars,
                 judgeResult, judgeOverride, err, teardowns, memVars, sideVars>>

\* Orchestrator.respondToGate with the run's own variables
AnswerGate(approved) ==
  /\ Active
  /\ LET out == respondToGate(gateResolver, response, gateInvoked,
                              IF approved THEN "approved" ELSE "rejected")
     IN  /\ response' = out.response
         /\ gateResolver' = out.gateResolver
         /\ gateInvoked' = out.invoked
  /\ UNCHANGED <<pc, state, aborted, events, deps, taskVars, judgeResult,
                 judgeOverride, err, teardowns, memVars, edVars, svVars,
                 agVars, gitVars, toolVars, wsVars, wkVars,
                 questionResolvers, invoked>>

\* Orchestrator.respondToGate
RespondToGate(approved) == AnswerGate(approved) /\ UNCHANGED noops

Controller ==
  \/ Run \/ Plan \/ InitializePortals \/ Test \/ Deploy \/ JudgeExecute
  \/ RequestJudgeOverride \/ JudgeGateRegister \/ JudgeGateResume
  \/ Complete \/ SessionComplete \/ Catch \/ Finally

Executor ==
  \/ PullBatch \/ ExecuteCancelled \/ ExecuteDone
  \/ \E t \in Tasks : Dispatch(t) \/ FireGate(t) \/ GateResume(t)

User == Cancel \/ \E approved \in BOOLEAN : RespondToGate(approved)

Next == Controller \/ Executor \/ User

Spec == Init /\ [][Next]_vars

\* the controller and the workers always get to run; the user need not act
FairSpec == Spec /\ WF_vars(Controller) /\ WF_vars(Executor)

\* The executor phase when no cancel is requested, every dispatch returns and
\* every gate is answered with approve.
ApprovedExecutor ==
  \/ PullBatch \/ ExecuteDone
  \/ \E t \in Tasks : Dispatch(t) \/ FireGate(t) \/ GateResume(t)

ApproveNext ==
  \/ Run \/ Plan \/ InitializePortals \/ ApprovedExecutor
  \/ RespondToGate(TRUE) \/ Catch \/ Finally

ApproveSpec == Init /\ [][ApproveNext]_vars /\ WF_vars(ApproveNext)

\* The run through the execute phase with what the agents stream and commit,
\* for the diamond plan (its middle tasks are concurrent siblings), with no
\* cancel requested.
StreamInit == Init /\ deps = Diamond

StreamNext ==
  \/ Run \/ Plan \/ InitializePortals \/ ApprovedExecutor \/ Catch \/ Finally
  \/ \E approved \in BOOLEAN : RespondToGate(approved)
  \/ \E t \in Tasks : AgentStream(t) \/ DispatchCommitted(t)

StreamSpec == StreamInit /\ [][StreamNext]_vars

\* The run of a plan of independent tasks in which every dispatch fails, so
\* that the workers of a batch use up their retries side by side, with no
\* cancel requested.
GateInit == Init /\ deps = Independent

GateNext ==
  \/ Controller \/ PullBatch \/ ExecuteDone
  \/ \E t \in Tasks : DispatchFailing(t) \/ FireGate(t) \/ GateResume(t)
  \/ \E approved \in BOOLEAN : RespondToGate(approved)

GateSpec == GateInit /\ [][GateNext]_vars

(* ------------------------ questions and answers ------------------------ *)

\* the running agent of a task asks the user a question and waits for the
\* answer: the resolver of the question is stored under the task id (the
\* agent_question event is what AgentStream publishes)
AskQuestion(t) ==
  /\ Executing
  /\ wpc[t] = "dispatch"
  /\ questionResolvers[t] = 0
  /\ Len(invoked) < MaxQuestions
  /\ questionResolvers' = [questionResolvers EXCEPT ![t] = Len(invoked) + 1]
  /\ invoked' = Append(invoked, 0)
  /\ UNCHANGED <<pc, state, aborted, gateResolver, response, events, deps,
                 taskVars, judgeResult, judgeOverride, err, teardowns,
                 memVars, edVars, svVars, agVars, gitVars, toolVars, wsVars,
                 wkVars, gateInvoked, noops>>

\* Orchestrator.respondToQuestion(taskId, answers)
RespondToQuestion(taskId) ==
  /\ Active
  /\ LET out == respondToQuestion(questionResolvers, invoked, taskId)
     IN  /\ questionResolvers' = out.questionResolvers
         /\ invoked' = out.invoked
  /\ noops' = IF questionResolvers[taskId] = 0
              THEN noops \cup {"question"} ELSE noops
  /\ UNCHANGED <<runVars, memVars, edVars, svVars, agVars, gitVars, toolVars,
                 wsVars, wkVars, gateInvoked>>

\* Orchestrator.respondToGate, with the calls that found the slot empty noted
RespondToGateNoted(approved) ==
  /\ AnswerGate(approved)
  /\ noops' = IF gateResolver = NoResolver THEN noops \cup {"gate"} ELSE noops

\* The run of a chain of tasks whose agents ask questions, with the user
\* answering gates and questions at any time and no cancel requested.
AnswerInit == Init /\ deps = Chain

AnswerNext ==
  \/ Controller \/ PullBatch \/ ExecuteDone
  \/ \E t \in Tasks : Dispatch(t) \/ FireGate(t) \/ GateResume(t)
  \/ \E t \in Tasks : AskQuestion(t) \/ RespondToQuestion(t)
  \/ \E approved \in BOOLEAN : RespondToGateNoted(approved)

AnswerSpec == AnswerInit /\ [][AnswerNext]_vars

(* ------------------------------ dispatch ------------------------------ *)

rest ==
  <<runVars, memVars, gitVars, toolVars, wsVars, wkVars, qVars, svVars,
    edVars>>

\* execute returns: the locals of the loop are gone
Return(success, summary, how) ==
  /\ aresult' = AgentResult(success, summary)
  /\ ended' = how
  /\ apc' = "returned"
  /\ acontent' = <<>>
  /\ submitted' = <<>>
  /\ running' = {}
  /\ results' = NoResults

\* AgentRunner.execute(params) is called with a signal that has not fired
Execute(turns) ==
  /\ apc = "idle"
  /\ apc' = "top"
  /\ amax' = turns
  /\ UNCHANGED <<rest, aturn, asignal, cancelled, modelCalls, contents,
                 acontent, finalSummary, submitted, running, results,
                 turnMessages, aresult, ended>>

\* the caller's abort signal fires while the dispatch runs
CancelDispatch ==
  /\ apc \in {"top", "model", "tools"}
  /\ ~cancelled
  /\ cancelled' = TRUE
  /\ asignal' = TRUE
  /\ UNCHANGED <<rest, apc, amax, aturn, modelCalls, contents, acontent,
                 finalSummary, submitted, running, results, turnMessages,
                 aresult, ended>>

\* the test of the while loop, turn++, the test of the signal and the
\* request of the completion; after the loop, the return of success
LoopTop ==
  /\ apc = "top"
  /\ IF aturn < amax
     THEN /\ aturn' = aturn + 1
          /\ IF asignal
             THEN /\ Return(FALSE, CancelledSummary, "cancelled")
                  /\ UNCHANGED <<modelCalls, turnMessages>>
             ELSE /\ apc' = "model"
                  /\ modelCalls' = modelCalls + 1
                  /\ turnMessages' = <<>>
                  /\ UNCHANGED <<acontent, submitted, running, results,
                                 aresult, ended>>
     ELSE /\ Return(TRUE, finalSummary, "turns")
          /\ UNCHANGED <<aturn, modelCalls, turnMessages>>
  /\ UNCHANGED <<rest, amax, asignal, cancelled, contents, finalSummary>>

\* the completion returns content and tool calls: with no tool call the loop
\* breaks and execute returns, else the tools are launched
ModelReturns(content, tools) ==
  /\ apc = "model"
  /\ contents' = Append(contents, content)
  /\ IF tools = <<>>
     THEN /\ finalSummary' = IF content # <<>> THEN content ELSE NoOutput
          /\ Return(TRUE, finalSummary', "finished")
          /\ UNCHANGED turnMessages
     ELSE /\ acontent' = content
          /\ submitted' = tools
          /\ running' = DOMAIN tools
          /\ results' = NoResults
          /\ apc' = "tools"
          /\ UNCHANGED <<finalSummary, turnMessages, aresult, ended>>
  /\ UNCHANGED <<rest, amax, aturn, asignal, cancelled, modelCalls>>

\* the completion throws: the request was aborted through the signal, or the
\* API failed; the catch block of execute aborts and returns the message
ModelThrows ==
  /\ apc = "model"
  /\ asignal' = TRUE
  /\ Return(FALSE, IF asignal THEN AbortedMessage ELSE ApiErrorMessage, "thrown")
  /\ UNCHANGED <<rest, amax, aturn, cancelled, modelCalls, contents,
                 finalSummary, turnMessages>>

\* one of the tools launched by executeToolsParallel finishes
ToolFinishes(i) ==
  /\ apc = "tools"
  /\ i \in running
  /\ running' = running \ {i}
  /\ results' = SetResult(results, submitted, i, executeTool(submitted, i))
  /\ UNCHANGED <<rest, apc, amax, aturn, asignal, cancelled, modelCalls,
                 contents, acontent, finalSummary, submitted, turnMessages,
                 aresult, ended>>

\* Promise.all resolved: the tool messages are pushed and the pass ends
ToolsDone ==
  /\ apc = "tools"
  /\ running = {}
  /\ turnMessages' = TurnMessagesOf(results, submitted)
  /\ finalSummary' = NextSummary(finalSummary, acontent)
  /\ acontent' = <<>>
  /\ submitted' = <<>>
  /\ results' = NoResults
  /\ apc' = "top"
  /\ UNCHANGED <<rest, amax, aturn, asignal, cancelled, modelCalls, contents,
                 running, aresult, ended>>

\* the timer of withTimeout fires while execute awaits the loop: the catch
\* block aborts and returns; the model follows the dispatch up to its return
Timeout ==
  /\ apc \in {"model", "tools"}
  /\ asignal' = TRUE
  /\ Return(FALSE, TimedOutSummary, "timeout")
  /\ UNCHANGED <<rest, amax, aturn, cancelled, modelCalls, contents,
                 finalSummary, turnMessages>>

AgentNext ==
  \/ \E turns \in 1 .. MaxAgentTurns : Execute(turns)
  \/ CancelDispatch \/ LoopTop \/ ModelThrows \/ ToolsDone \/ Timeout
  \/ \E content \in TurnContents(aturn), n \in 0 .. MaxToolCalls :
       \E tools \in TurnCalls(n) : ModelReturns(content, tools)
  \/ \E i \in 1 .. MaxToolCalls : ToolFinishes(i)

AgentSpec == Init /\ [][AgentNext]_vars

(* --------------------------- the memory file -------------------------- *)

others ==
  <<runVars, memVars, gitVars, toolVars, wsVars, wkVars, qVars, agVars,
    edVars>>

\* recordRun up to the copy of saveDb: loadDb, the new record, and
\* writeFileSync of the whole document to the temporary file
SaveDb(id) ==
  /\ spc = "idle"
  /\ saves < MaxWrites
  /\ saving' = recordRun(loadDb(memFile), buildRecord(saves + 1, id), maxRecords)
  /\ before' = memFile
  /\ tmpFile' = stringify(saving')
  /\ spc' = "copy"
  /\ UNCHANGED <<others, memFile, saves>>

\* copyFileSync(tmpFile, filePath) where the file system clones the file
CopyClone ==
  /\ spc = "copy"
  /\ memFile' = tmpFile
  /\ spc' = "unlink"
  /\ UNCHANGED <<others, tmpFile, saving, before, saves>>

\* copyFileSync(tmpFile, filePath) otherwise: the destination is opened and
\* truncated, then filled piece by piece
CopyTruncate ==
  /\ spc = "copy"
  /\ memFile' = <<>>
  /\ spc' = "copying"
  /\ UNCHANGED <<others, tmpFile, saving, before, saves>>

CopyChunk ==
  /\ spc = "copying"
  /\ memFile' = SubSeq(tmpFile, 1, Len(memFile) + 1)
  /\ spc' = IF memFile' = tmpFile THEN "unlink" ELSE "copying"
  /\ UNCHANGED <<others, tmpFile, saving, before, saves>>

\* unlinkSync(tmpFile); saveDb and recordRun return
Unlink ==
  /\ spc = "unlink"
  /\ tmpFile' = NoFile
  /\ spc' = "idle"
  /\ saves' = saves + 1
  /\ UNCHANGED <<others, memFile, saving, before>>

\* the process stops during saveDb
ProcessStops ==
  /\ spc \in {"copy", "copying", "unlink"}
  /\ spc' = "stopped"
  /\ UNCHANGED <<others, memFile, tmpFile, saving, before, saves>>

\* the server starts again: a new NuggetMemoryService on the same path
Restart ==
  /\ spc = "stopped"
  /\ spc' = "idle"
  /\ saves' = saves + 1
  /\ UNCHANGED <<others, memFile, tmpFile, saving, before>>

SaveNext ==
  \/ \E id \in Sessions : SaveDb(id)
  \/ CopyClone \/ CopyTruncate \/ CopyChunk \/ Unlink \/ ProcessStops \/ Restart

SaveSpec == Init /\ [][SaveNext]_vars

(* ------------------------------ MultiEdit ----------------------------- *)

\* a file of any content and no call so far
EditInit ==
  /\ RunInit /\ MemoryIdle /\ GitIdle /\ ToolIdle /\ ChannelIdle
  /\ WorkspaceIdle /\ AnswerIdle /\ AgentIdle /\ SaveIdle
  /\ efile \in StringsOf(MaxContent)
  /\ ebefore = <<>>
  /\ edits = <<>>
  /\ eresult = NoEdit

\* executeTool('MultiEdit', {file_path, edits}) on the file
MultiEdit(es) ==
  /\ eresult = NoEdit
  /\ eresult' = toolMultiEdit(efile, es)
  /\ efile' = eresult'.file
  /\ ebefore' = efile
  /\ edits' = es
  /\ UNCHANGED <<runVars, memVars, gitVars, toolVars, wsVars, wkVars, qVars,
                 agVars, svVars>>

EditNext == \E n \in 1 .. MaxEdits : \E es \in EditsOf(n) : MultiEdit(es)

EditSpec == EditInit /\ [][EditNext]_vars

(* ---------------------------- build memory ---------------------------- *)

\* what the memory file may hold when a service is constructed on it
StoredBefore ==
  {<<>>, <<buildRecord(0, 1)>>, <<buildRecord(-1, 2), buildRecord(0, 1)>>}

\* new NuggetMemoryService(filePath, maxRecords)
MemoryInit ==
  /\ RunInit
  /\ GitIdle
  /\ ToolIdle
  /\ ChannelIdle
  /\ WorkspaceIdle
  /\ AnswerIdle
  /\ AgentIdle
  /\ SaveIdle
  /\ EditIdle
  /\ recordRunCalled = FALSE
  /\ records \in StoredBefore
  /\ written = <<>>
  /\ maxRecords \in 1 .. MaxCap

\* memory.recordRun({sessionId: id, ...}) returns
RecordRun(id) ==
  /\ Len(written) < MaxWrites
  /\ records' = recordRun(records, buildRecord(Len(written) + 1, id), maxRecords)
  /\ written' = Append(written, id)
  /\ UNCHANGED <<runVars, recordRunCalled, maxRecords, sideVars>>

MemoryNext == \E id \in Sessions : RecordRun(id)

MemorySpec == MemoryInit /\ [][MemoryNext]_vars

(* --------------------------- version store ---------------------------- *)

\* an agent writes, rewrites or deletes a file of the workspace
WriteFile(f, c) ==
  /\ worktree[f] # c
  /\ worktree' = [worktree EXCEPT ![f] = c]
  /\ UNCHANGED <<runVars, memVars, edVars, svVars, agVars, qVars, wkVars,
                 toolVars, wsVars, index, head, history, commitCalls,
                 commitResult>>

\* git add -A run in the workspace outside GitService
StageAll ==
  /\ index # worktree
  /\ index' = worktree
  /\ UNCHANGED <<pc, state, aborted, gateResolver, response, events, deps,
                 taskVars, judgeResult, judgeOverride, err, teardowns,
                 memVars, edVars, svVars, agVars, qVars, toolVars, wsVars,
                 wkVars, worktree, head, history, commitCalls, commitResult>>

\* the worker of the next task commits its work: git.commit(...) and the
\* commit_created event; every task commits once
CommitTask ==
  /\ commitCalls < NumTasks
  /\ LET done == commit(worktree, head, history, commitCalls + 1)
     IN  /\ index' = done.index
         /\ head' = done.head
         /\ history' = done.history
         /\ commitResult' = done.result
         /\ events' = events \o CommitEvents(done.result)
  /\ commitCalls' = commitCalls + 1
  /\ UNCHANGED <<pc, state, aborted, gateResolver, response, deps, taskVars,
                 judgeResult, judgeOverride, err, teardowns, memVars, edVars,
                 svVars, agVars, qVars, toolVars, wsVars, wkVars, worktree>>

GitNext ==
  \/ \E f \in Files, c \in Contents : WriteFile(f, c)
  \/ StageAll
  \/ CommitTask

GitSpec == Init /\ [][GitNext]_vars

(* ------------------------------- tools -------------------------------- *)

\* runAgentLoop is entered
StartLoop ==
  /\ lpc = "idle"
  /\ lpc' = "loop"
  /\ UNCHANGED <<runVars, memVars, edVars, svVars, agVars, qVars, wkVars,
                 gitVars, wsVars, turn, toolCall, toolResult, toolMessage,
                 pushes, accessed, spawned>>

\* one pass of the while loop up to executeToolsParallel: the model answers
\* with no tool call, which ends the loop, or with a tool call
LoopTurn ==
  /\ lpc = "loop"
  /\ IF turn < LoopTurns
     THEN /\ turn' = turn + 1
          /\ \/ /\ lpc' = "returned"
                /\ toolCall' = NoCall
             \/ /\ lpc' = "tools"
                /\ toolCall' \in ToolCalls
     ELSE /\ lpc' = "returned"
          /\ UNCHANGED <<turn, toolCall>>
  /\ UNCHANGED <<runVars, memVars, edVars, svVars, agVars, qVars, wkVars,
                 gitVars, wsVars, toolResult, toolMessage, pushes, accessed,
                 spawned>>

\* toolRead, toolWrite and toolLS: what executeTool returns and the path
\* the tool touched
PathToolRuns(call) ==
  LET r == resolvePath(call.path, WorkingDir)
  IN  /\ spawned' = spawned
      /\ IF ~r.ok
         THEN /\ toolResult' = ToolFailed(r.error)
              /\ accessed' = NoPath
         ELSE \/ /\ toolResult' = ToolOk
                 /\ accessed' = r.path
              \/ /\ call.name # "Write"
                 /\ toolResult' = ToolFailed(<<"not", "found:">>)
                 /\ accessed' = NoPath

\* toolBash: a blocked command is rejected before spawn; a spawned command
\* resolves when the child closes and rejects on a spawn error
BashRuns(call) ==
  /\ accessed' = NoPath
  /\ IF Blocked(call.command)
     THEN /\ toolResult' = ToolFailed(BlockedError \o call.command)
          /\ spawned' = spawned
     ELSE /\ spawned' = spawned + 1
          /\ toolResult' \in {ToolOk, ToolFailed(<<"spawn">>)}

\* executeToolsParallel for the tool call of the turn, and the content of
\* the tool message for its result
ExecuteTool ==
  /\ lpc = "tools"
  /\ IF toolCall.name = "Bash" THEN BashRuns(toolCall) ELSE PathToolRuns(toolCall)
  /\ toolMessage' = ToolMessage(toolResult')
  /\ lpc' = "push"
  /\ UNCHANGED <<runVars, memVars, edVars, svVars, agVars, qVars, wkVars,
                 gitVars, wsVars, turn, toolCall, pushes>>

\* the tool message is pushed and the pass of the loop ends: its locals are
\* gone
PushToolMessage ==
  /\ lpc = "push"
  /\ pushes' = pushes + 1
  /\ toolCall' = NoCall
  /\ toolResult' = NoResult
  /\ toolMessage' = <<>>
  /\ accessed' = NoPath
  /\ lpc' = "loop"
  /\ UNCHANGED <<runVars, memVars, edVars, svVars, agVars, qVars, wkVars,
                 gitVars, wsVars, turn, spawned>>

ToolNext == StartLoop \/ LoopTurn \/ ExecuteTool \/ PushToolMessage

ToolSpec == Init /\ [][ToolNext]_vars

(* ---------------------------- live channel --------------------------- *)

\* connect(): new WebSocket(url)
Connect ==
  /\ ws' = "connecting"
  /\ sockets' = sockets + 1

\* useEffect on mount: retriesRef.current = 0; connect()
Mount ==
  /\ ws = "none"
  /\ sockets < MaxSockets
  /\ retries' = 0
  /\ Connect
  /\ UNCHANGED <<runVars, memVars, edVars, svVars, agVars, qVars, wkVars,
                 gitVars, toolVars, timer, closes, delays, resetFrom, warned>>

\* ws.onopen
SocketOpen ==
  /\ ws = "connecting"
  /\ ws' = "open"
  /\ retries' = RetriesAfterOpen(retries)
  /\ resetFrom' = retries
  /\ closes' = 0
  /\ delays' = <<>>
  /\ UNCHANGED <<runVars, memVars, edVars, svVars, agVars, qVars, wkVars,
                 gitVars, toolVars, timer, sockets, warned>>

\* ws.onclose: give up at MAX_RETRIES, else set the reconnect timer
SocketClose ==
  /\ ws \in {"connecting", "open"}
  /\ ws' = "closed"
  /\ closes' = closes + 1
  /\ IF retries >= MAX_RETRIES
     THEN /\ warned' = TRUE
          /\ UNCHANGED <<retries, timer, delays>>
     ELSE /\ timer' = reconnectDelay(retries)
          /\ delays' = Append(delays, reconnectDelay(retries))
          /\ retries' = retries + 1
          /\ warned' = warned
  /\ UNCHANGED <<runVars, memVars, edVars, svVars, agVars, qVars, wkVars,
                 gitVars, toolVars, sockets, resetFrom>>

\* the reconnect timer fires: connect()
TimerFires ==
  /\ timer # 0
  /\ sockets < MaxSockets
  /\ timer' = 0
  /\ Connect
  /\ UNCHANGED <<runVars, memVars, edVars, svVars, agVars, qVars, wkVars,
                 gitVars, toolVars, retries, closes, delays, resetFrom,
                 warned>>

ChannelNext == Mount \/ SocketOpen \/ SocketClose \/ TimerFires

ChannelSpec == Init /\ [][ChannelNext]_vars

(* ---------------------- workspace directory steps ---------------------- *)

\* an agent, a phase or the user writes a file of W
WorkspaceWrite(p, c) ==
  /\ tree.files[p] # c
  /\ tree' = writeFileSync(tree, p, c)
  /\ fsOp' = "write"
  /\ fsRemoved' = {}
  /\ resetBody' = NoBody
  /\ resetReply' = NoReply
  /\ UNCHANGED <<runVars, memVars, edVars, svVars, agVars, qVars, gitVars,
                 toolVars, wsVars>>

\* the stale-metadata cleanup before a build or a dispatch
StaleMetadataCleanup ==
  /\ tree' = CleanStaleMetadata(tree, MetadataDirs)
  /\ fsOp' = "cleanup"
  /\ fsRemoved' = FilesOf(tree) \ FilesOf(tree')
  /\ resetBody' = NoBody
  /\ resetReply' = NoReply
  /\ UNCHANGED <<runVars, memVars, edVars, svVars, agVars, qVars, gitVars,
                 toolVars, wsVars>>

\* POST /api/workspace/reset with a body {workspace_path, mode}
ResetRequest(workspace_path, mode) ==
  LET out == Reset(tree, workspace_path, mode)
  IN  /\ tree' = out.fs
      /\ fsOp' = "reset"
      /\ fsRemoved' = FilesOf(tree) \ FilesOf(tree')
      /\ resetBody' = [workspace_path |-> workspace_path, mode |-> mode]
      /\ resetReply' = out.reply
      /\ UNCHANGED <<runVars, memVars, edVars, svVars, agVars, qVars,
                     gitVars, toolVars, wsVars>>

WorkspaceNext ==
  \/ \E p \in WorkspaceFiles, c \in FileContents : WorkspaceWrite(p, c)
  \/ StaleMetadataCleanup
  \/ \E workspace_path \in ResetPaths, mode \in ResetModes :
       ResetRequest(workspace_path, mode)

WorkspaceSpec == Init /\ [][WorkspaceNext]_vars

(* ============================ properties ============================== *)

InProgress == {t \in Tasks : status[t] = "in_progress"}

JudgeGateEmitted == \E i \in DOMAIN events : IsJudgeGate(events[i])

Started(t) ==
  \E i \in DOMAIN events : events[i].type = "task_started" /\ events[i].task_id = t

\* C1: once session_complete or error(recoverable=false) has been emitted, no
\* further event is emitted: a terminal event is always the last one.
C1_NoEventAfterTerminal ==
  \A i \in DOMAIN events : IsTerminalEvent(events[i]) => i = Len(events)

C1_Witness ==
  /\ pc = "returned"
  /\ Len(events) > 1
  /\ IsTerminalEvent(events[Len(events)])

\* C2: when the judge fails and the gate is answered with reject, no
\* session_complete is ever emitted and the run ends with an error whose
\* message contains "Judge".
C2_RejectBlocksCompletion ==
  response[JudgeGate] = "rejected" =>
    /\ ~judgeResult.passed
    /\ ~HasEvent("session_complete")
    /\ pc \in {"finally", "returned"} =>
         \E i \in DOMAIN events :
           events[i].type = "error" /\ Contains(events[i].message, "Judge")

C2_Witness ==
  /\ pc = "returned"
  /\ response[JudgeGate] = "rejected"
  /\ events[Len(events)].type = "error"

\* C3: when the judge fails and the gate is answered with approve,
\* session_complete is emitted with raw_passed = false, overridden = true,
\* passed = true and the score the judge reported.
C3_ApprovedOverridePayload ==
  response[JudgeGate] = "approved" =>
    /\ pc \in {"finally", "returned"} => HasEvent("session_complete")
    /\ ~HasEvent("error")
    /\ \A i \in DOMAIN events :
         events[i].type = "session_complete" =>
           /\ events[i].judge.raw_passed = FALSE
           /\ events[i].judge.overridden = TRUE
           /\ events[i].judge.passed = TRUE
           /\ \E j \in 1 .. (i - 1) :
                /\ events[j].type = "judge_result"
                /\ events[j].score = events[i].judge.score
                /\ ~events[j].passed

C3_Witness ==
  /\ pc = "returned"
  /\ response[JudgeGate] = "approved"
  /\ events[Len(events)].type = "session_complete"
  /\ events[Len(events)].judge.score < DefaultThreshold

\* C4: human_gate "__judge__" follows judge_result exactly when the verdict
\* is not passed, nothing happens after it until the gate is answered, and a
\* passed verdict is followed directly by session_complete.
C4_JudgeGateExactlyOnFail ==
  /\ \A i \in DOMAIN events :
       IsJudgeGate(events[i]) =>
         i > 1 /\ events[i - 1].type = "judge_result" /\ ~events[i - 1].passed
  /\ \A i \in DOMAIN events :
       (events[i].type = "judge_result" /\ i < Len(events)) =>
         IF events[i].passed
         THEN events[i + 1].type = "session_complete"
         ELSE IsJudgeGate(events[i + 1])
  /\ (pc \in {"complete", "finally", "returned"} /\ HasEvent("judge_result")
        /\ ~judgeResult.passed) => JudgeGateEmitted
  /\ (JudgeGateEmitted /\ response[JudgeGate] = "none") =>
       /\ IsJudgeGate(events[Len(events)])
       /\ pc \in {"judgeGateRegister", "judgeGateWait"}
       /\ state = "reviewing"

C4_Witness ==
  /\ pc = "judgeGateWait"
  /\ gateResolver = JudgeGate
  /\ response[JudgeGate] = "none"
  /\ aborted
  /\ judgeResult.score >= judgeResult.threshold

\* C5: if the cancellation flag is set when the controller is at a phase
\* boundary, the controller does not start the next phase but goes to the
\* path that sets state done and emits error(recoverable=false).
PhaseBoundaries == {"plan", "portals", "execute", "test", "deploy", "judge", "complete"}

C5_CancelStopsAtBoundary ==
  [][(aborted /\ pc \in PhaseBoundaries /\ pc' # pc) => pc' = "catch"]_vars

\* C6: after cancel() during an active run, the session eventually reaches
\* state done.
C6_CancelLeadsToDone == (aborted /\ Active) ~> (state = "done")

\* C7: at every moment at most 3 tasks are in_progress.
C7_BoundedConcurrency == Cardinality(InProgress) <= 3

C7_Witness ==
  /\ Cardinality(InProgress) = 3
  /\ ReadySet(status) # {}

\* C8: a task enters in_progress only when all its predecessors are done.
C8_StartsAfterPredecessors ==
  [][\A t \in Tasks :
       (status[t] # "in_progress" /\ status'[t] = "in_progress") =>
         /\ \A p \in deps[t] : status[p] = "done"
         /\ \A p \in deps[t] : status'[p] = "done"]_vars

C8_Witness ==
  \E t \in Tasks : status[t] = "in_progress" /\ Cardinality(deps[t]) > 1

\* C9: a task that is done or failed keeps its status and is not dispatched
\* again.
C9_TerminalIsFinal ==
  [][\A t \in Tasks :
       status[t] \in {"done", "failed"} =>
         /\ status'[t] = status[t]
         /\ wpc'[t] = wpc[t]
         /\ attempt'[t] = attempt[t]]_vars

C9_Witness ==
  /\ \E t \in Tasks : status[t] = "failed" /\ reason[t] = "retries_exhausted"
  /\ \E t \in Tasks : status[t] = "done"
  /\ \E t \in Tasks : status[t] = "in_progress"

\* C10: a task with a failed predecessor is failed with reason
\* predecessor_failed, and was never started, dispatched or retried.
C10_PredecessorFailedCascade ==
  \A t \in Tasks :
    (\E p \in deps[t] : status[p] = "failed") =>
      /\ status[t] = "failed"
      /\ reason[t] = "predecessor_failed"
      /\ wpc[t] = "none"
      /\ attempt[t] = 0
      /\ ~Started(t)

C10_Witness ==
  \E t \in Tasks, p \in Tasks :
    /\ p \in deps[t]
    /\ status[t] = "failed"
    /\ status[p] = "failed"
    /\ reason[p] = "predecessor_failed"

TaskGates(t) ==
  {i \in DOMAIN events : events[i].type = "human_gate" /\ events[i].task_id = t}

TaskEvents(type, t) ==
  {i \in DOMAIN events : events[i].type = type /\ events[i].task_id = t}

\* C12: a task is dispatched at most 3 times; its human_gate is emitted only
\* after three failed dispatches, once, and carries the retry count; while the
\* gate is unanswered the worker is blocked: the task stays in_progress, is
\* not dispatched again and no task_failed is emitted for it.
C12_RetriesThenGate ==
  \A t \in Tasks :
    /\ Len(calls[t]) <= 3
    /\ Cardinality(TaskGates(t)) <= 1
    /\ \A i \in TaskGates(t) :
         /\ Executing => Len(calls[t]) = 3
         /\ \A j \in DOMAIN calls[t] : ~calls[t][j].success
         /\ events[i].retry_count = 3
    /\ (TaskGates(t) # {} /\ response[t] = "none") =>
         /\ wpc[t] = "gateWait"
         /\ status[t] = "in_progress"
         /\ TaskEvents("task_failed", t) = {}
    /\ wpc[t] = "gateWait" => TaskGates(t) # {}

C12_Witness ==
  \E t \in Tasks, u \in Tasks :
    /\ wpc[t] = "gateWait"
    /\ response[t] = "none"
    /\ gateResolver = t
    /\ Len(calls[t]) = 3
    /\ wpc[u] = "dispatch"

\* C13: when the gate of a task is answered with approve, the worker marks
\* the task failed, emits task_failed with the retry count and the executor
\* goes on; once a gate is answered with reject no task is started any more,
\* no later phase is entered and the run ends in the catch block with an
\* error event and no session_complete.
C13_GateAnswer ==
  [][\A t \in Tasks :
       /\ (wpc[t] = "gateWait" /\ response[t] = "approved" /\ wpc'[t] # "gateWait") =>
            /\ status'[t] = "failed"
            /\ events' = events \o <<TaskFailedEv(t, 3)>>
            /\ pc' = "execute"
            /\ err' = err
       /\ response[t] = "rejected" =>
            /\ \A u \in Tasks : status[u] = "pending" => status'[u] = "pending"
            /\ pc' \in {"execute", "catch", "finally", "returned"}
            /\ pc' = "returned" =>
                 /\ state' = "done"
                 /\ events'[Len(events')].type = "error"
                 /\ \A i \in DOMAIN events' : events'[i].type # "session_complete"]_vars

C13_ApproveWitness ==
  \E t \in Tasks, u \in Tasks :
    /\ reason[t] = "retries_exhausted"
    /\ response[t] = "approved"
    /\ \E i \in TaskEvents("task_failed", t), j \in TaskEvents("task_started", u) : i < j

C13_Witness ==
  \E t \in Tasks, u \in Tasks :
    /\ response[t] = "rejected"
    /\ pc = "returned"
    /\ err = GateRejectedMessage
    /\ status[u] = "pending"

\* C14: attempt k of a task is dispatched with maxTurns 25 + 10 k, so a task
\* that fails twice and then succeeds is dispatched with 25, 35, 45; a retry
\* follows the failed attempt directly: the worker is at its next dispatch,
\* in no waiting position.
C14_MaxTurnsLadder ==
  \A t \in Tasks :
    /\ \A j \in DOMAIN calls[t] : calls[t][j].maxTurns = 25 + 10 * (j - 1)
    /\ (Len(calls[t]) = 3 /\ calls[t][3].success) =>
         [j \in 1 .. 3 |-> calls[t][j].maxTurns] = <<25, 35, 45>>
    /\ (calls[t] # <<>> /\ ~calls[t][Len(calls[t])].success /\ Len(calls[t]) < 3) =>
         /\ wpc[t] = "dispatch"
         /\ attempt[t] = Len(calls[t])

C14_Witness ==
  \E t \in Tasks :
    /\ Len(calls[t]) = 3
    /\ ~calls[t][1].success /\ ~calls[t][2].success /\ calls[t][3].success
    /\ status[t] = "done"

\* C15: the user prompt of attempt 0 does not contain "Retry Attempt"; the
\* user prompt of attempt k >= 1 contains "Retry Attempt k" and no
\* "Retry Attempt" with another number.
C15_RetryHeader ==
  \A t \in Tasks : \A j \in DOMAIN calls[t] :
    LET prompt == calls[t][j].prompt
        number == <<"0", "1", "2", "3">>
    IN  IF j = 1
        THEN ~ContainsPhrase(prompt, <<"Retry", "Attempt">>)
        ELSE \A n \in DOMAIN number :
               ContainsPhrase(prompt, <<"Retry", "Attempt", number[n]>>) <=> (n = j)

C15_Witness ==
  \E t \in Tasks :
    /\ Len(calls[t]) = 3
    /\ ContainsPhrase(calls[t][3].prompt, <<"##", "Retry", "Attempt", "2">>)
    /\ ContainsPhrase(calls[t][3].prompt, TaskPrompt)

\* C16: in the events of each task, task_started comes before every
\* agent_output, tool_use, agent_question and commit_created, and all of
\* those come before its task_completed or task_failed.
C16_TaskEventOrder ==
  \A i \in DOMAIN events :
    events[i].type \in WorkTypes =>
      /\ \E j \in 1 .. (i - 1) :
           events[j].type = "task_started" /\ events[j].task_id = events[i].task_id
      /\ \A k \in 1 .. (i - 1) :
           events[k].type \in {"task_completed", "task_failed"} =>
             events[k].task_id # events[i].task_id

C16_Witness ==
  \E t \in Tasks, u \in Tasks, type \in WorkTypes :
    \E i \in TaskEvents(type, t), j \in TaskEvents("task_started", t),
       k \in TaskEvents("task_completed", u), l \in TaskEvents("task_completed", t) :
      /\ u # t
      /\ j < k /\ k < i /\ i < l
      /\ Len(calls[t]) > 1

StateOrderClaimed ==
  <<"idle", "planning", "executing", "testing", "deploying", "judging", "done", "error">>

StateOrder ==
  <<"idle", "planning", "executing", "testing", "deploying", "reviewing", "done", "error">>

\* the state stays or moves to a later member of the order
Forward(order) ==
  \E i \in DOMAIN order, j \in DOMAIN order :
    order[i] = state /\ order[j] = state' /\ i <= j

\* C17 as claimed: the session state is always one of idle, planning,
\* executing, testing, deploying, judging, done, error and only moves forward
\* in that order (a jump to done is a move forward).
C17_StateForwardClaimed == [][Forward(StateOrderClaimed)]_vars

\* C17 amended: the session state is always one of idle, planning, executing,
\* testing, deploying, reviewing, done, error and only moves forward in that
\* order; a run that fails, is rejected or completes jumps to done.
C17_StateForward == [][Forward(StateOrder)]_vars

C17_Witness ==
  /\ state = "reviewing"
  /\ pc = "judgeGateWait"
  /\ HasEvent("deploy_complete")

\* C18: whenever run() has returned, after session_complete, after a failure
\* thrown in a phase or after a rejected gate, the session state is done and
\* deploy teardown has been invoked; it is not invoked before the run ends.
C18_DoneAndTeardown ==
  /\ pc = "returned" => (state = "done" /\ teardowns = 1)
  /\ pc # "returned" => teardowns = 0
  /\ pc \in {"finally", "returned"} =>
       (HasEvent("session_complete") \/ HasEvent("error"))

C18_Witness ==
  /\ pc = "returned"
  /\ err = PhaseFailedMessage
  /\ HasEvent("deploy_started")
  /\ teardowns = 1

\* C19 as claimed: every run has called recordRun when its final event,
\* session_complete or error, is emitted.
C19_EveryRunRecorded ==
  (events # <<>> /\ IsTerminalEvent(events[Len(events)])) => recordRunCalled

\* C19 amended: every run that emits session_complete has called recordRun
\* before, also when tasks have failed, and the record is in the store unless
\* recordRun threw; recordRun is called nowhere but in complete().
C19_CompletedRunsRecorded ==
  /\ HasEvent("session_complete") => recordRunCalled
  /\ recordRunCalled => pc \in {"sessionComplete", "finally", "returned"}
  /\ written # <<>> =>
       /\ written = <<SessionId>>
       /\ \E i \in DOMAIN records : records[i].sessionId = SessionId

C19_Witness ==
  /\ pc = "returned"
  /\ events[Len(events)].type = "session_complete"
  /\ \E t \in Tasks : status[t] = "failed"
  /\ SessionIds(records) = <<SessionId>>

Distinct(seq) == \A i \in DOMAIN seq, j \in DOMAIN seq : seq[i] = seq[j] => i = j

\* C20: after N recordRun calls with distinct session ids, N > maxRecords, the
\* store holds exactly maxRecords records: the last maxRecords written, in the
\* order they were written.
C20_CapKeepsNewest ==
  LET N == Len(written)
  IN  (N > maxRecords /\ Distinct(written)) =>
        /\ Len(records) = maxRecords
        /\ \A i \in 1 .. maxRecords :
             records[i] = buildRecord(N - maxRecords + i, written[N - maxRecords + i])

C20_Witness ==
  /\ maxRecords = 2
  /\ Len(written) = 3
  /\ Distinct(written)
  /\ records = <<buildRecord(2, written[2]), buildRecord(3, written[3])>>

\* C21: the store holds at most one record per session id; the record of a
\* session that was written is the one the latest call for that session built,
\* and a record from before the calls is kept only while its session was not
\* written again.
C21_LatestPerSession ==
  /\ Distinct(SessionIds(records))
  /\ \A i \in DOMAIN records :
       LET r == records[i]
           callsOf == {k \in DOMAIN written : written[k] = r.sessionId}
       IN  IF callsOf = {}
           THEN r.id < 1
           ELSE r.id \in callsOf /\ \A k \in callsOf : k <= r.id

C21_Witness ==
  /\ maxRecords = 2
  /\ written = <<1, 2, 1>>
  /\ records = <<buildRecord(2, 2), buildRecord(3, 1)>>

CommitCalled == commitCalls' = commitCalls + 1

NothingCommitted ==
  /\ history' = history
  /\ head' = head
  /\ commitResult' = EmptyCommit
  /\ events' = events

\* C22 as stated: a commit call made when nothing is staged creates no
\* commit, returns the empty record and publishes no commit_created.
C22_NothingStagedClaimed ==
  [][(CommitCalled /\ Staged(index, head) = {}) => NothingCommitted]_vars

\* C22: a commit call made when the working tree holds what the last commit
\* holds creates no commit, returns the empty record and publishes no
\* commit_created; after any commit call the working tree holds what the last
\* commit holds, so repeated calls leave the history as it is.
C22_CleanTreeNoCommit ==
  [][CommitCalled =>
       /\ (worktree = head => NothingCommitted)
       /\ (worktree # head => history' # history)
       /\ worktree' = head' /\ index' = head']_vars

C22_Witness ==
  /\ commitCalls = 3
  /\ Len(history) = 1
  /\ commitResult = EmptyCommit
  /\ Cardinality(TaskEvents("commit_created", 1)) = 1
  /\ TaskEvents("commit_created", 2) = {}
  /\ TaskEvents("commit_created", 3) = {}

\* C23: the path a tool read or wrote lies inside the workspace root, and a
\* tool call whose path argument resolves outside the root fails with the
\* "escapes working directory" error and touches no path.
C23_ToolsStayInside ==
  /\ accessed # NoPath => Inside(accessed, WorkingDir)
  /\ (lpc = "push" /\ toolCall.name \in PathTools
        /\ ~Inside(pathResolve(WorkingDir, toolCall.path), WorkingDir)) =>
       /\ ~toolResult.success
       /\ startsWith(toolResult.error, <<"Path", "escapes", "working", "directory:">>)
       /\ accessed = NoPath

\* C24: a Bash call whose command matches the blocklist spawns no process
\* and returns success false with an error that begins "Command blocked by
\* security policy"; the error is the content of the tool message, the
\* message is pushed and the loop goes on.
C24_BlockedCommand ==
  [][/\ lpc = "push" => (lpc' = "loop" /\ pushes' = pushes + 1)
     /\ (lpc = "tools" /\ toolCall.name = "Bash" /\ lpc' # lpc
       /\ (\/ \E i \in DOMAIN toolCall.command : toolCall.command[i] = "curl"
           \/ \E i \in 1 .. (Len(toolCall.command) - 1) :
                toolCall.command[i] = "$" /\ toolCall.command[i + 1] \in Words
           \/ Blocked(toolCall.command))) =>
       /\ spawned' = spawned
       /\ ~toolResult'.success
       /\ startsWith(toolResult'.error,
                     <<"Command", "blocked", "by", "security", "policy:">>)
       /\ toolMessage' = <<"Error:">> \o toolResult'.error
       /\ lpc' = "push"]_vars

C24_Witness ==
  /\ toolCall = [name |-> "Bash", command |-> <<"echo", " ", "$", "HOME">>]
  /\ lpc = "push"
  /\ turn = 1
  /\ spawned = 0
  /\ toolMessage =
       <<"Error:", "Command", "blocked", "by", "security", "policy:",
         "echo", " ", "$", "HOME">>

BlockingIds == {"task_completion", "behavioral_traceability"}

FailedChecks(jr) == {jr.checks[i].id : i \in {j \in DOMAIN jr.checks : ~jr.checks[j].passed}}

C28_JudgeVerdict ==
  judgeResult # NoJudge =>
    /\ judgeResult.passed <=>
         (judgeResult.score >= judgeResult.threshold
            /\ judgeResult.blocking_issues = {})
    /\ judgeResult.blocking_issues = FailedChecks(judgeResult) \cap BlockingIds

C28_Witness ==
  /\ judgeResult # NoJudge
  /\ judgeResult.score >= judgeResult.threshold
  /\ ~judgeResult.passed
  /\ judgeResult.blocking_issues = {"behavioral_traceability"}
  /\ FailedChecks(judgeResult) =
       {"behavioral_traceability", "requirement_traceability"}

\* C29: the stale-metadata cleanup leaves no file under .elisa/comms,
\* .elisa/context and .elisa/status and leaves the three directories in
\* place; every file under .elisa/logs, src and tests and every design file
\* keeps its content, and those directories exist after it exactly when they
\* did before. On a fresh workspace, where no directory exists, it creates
\* the three directories and nothing else.
InMetadata(p) ==
  AtOrUnder(p, CommsDir) \/ AtOrUnder(p, ContextDir) \/ AtOrUnder(p, StatusDir)

C29_CleanupFrame ==
  [][fsOp' = "cleanup" =>
       /\ \A p \in WorkspaceFiles :
            tree'.files[p] = IF InMetadata(p) THEN Absent ELSE tree.files[p]
       /\ {CommsDir, ContextDir, StatusDir} \subseteq tree'.dirs
       /\ \A d \in {SrcDir, TestsDir, LogsDir} : d \in tree'.dirs <=> d \in tree.dirs
       /\ tree = FreshTree =>
            tree'.dirs = {ElisaDir, CommsDir, ContextDir, StatusDir}]_vars

C29_Witness ==
  /\ fsOp = "cleanup"
  /\ fsRemoved = {p \in WorkspaceFiles : InMetadata(p)}
  /\ tree.files[<<".elisa", "logs", "session.log">>] = "stale"
  /\ tree.files[<<"src", "main.js">>] = "fresh"
  /\ tree.files[<<"tests", "main.test.js">>] = "fresh"
  /\ tree.files[<<"workspace.json">>] = "stale"
  /\ {CommsDir, ContextDir, StatusDir} \subseteq tree.dirs

\* C30: a reset request for an existing workspace with mode clean_generated
\* is answered 200; it removes src, tests, .elisa/comms, .elisa/context and
\* .elisa/status with everything below them, reports those that existed, and
\* leaves every file under .elisa/logs, the logs directory and every design
\* file as they were. A request with any other mode is answered 400, and a
\* request that is not answered 200 removes nothing.
InResetTarget(p) ==
  AtOrUnder(p, SrcDir) \/ AtOrUnder(p, TestsDir) \/ InMetadata(p)

RECURSIVE Existing(_, _)
Existing(fs, paths) ==
  IF paths = <<>> THEN <<>>
  ELSE (IF existsSync(fs, Head(paths)) THEN <<Head(paths)>> ELSE <<>>)
         \o Existing(fs, Tail(paths))

C30_ResetFrame ==
  [][fsOp' = "reset" =>
       /\ resetBody'.mode # "clean_generated" => resetReply'.status = 400
       /\ (resetBody'.mode = "clean_generated" /\ resetBody'.workspace_path = "W")
            => resetReply'.status = 200
       /\ IF resetReply'.status = 200
          THEN /\ \A p \in WorkspaceFiles :
                    tree'.files[p] =
                      IF InResetTarget(p) THEN Absent ELSE tree.files[p]
               /\ tree'.dirs = tree.dirs \cap {ElisaDir, LogsDir}
               /\ resetReply'.removed =
                    Existing(tree, <<SrcDir, TestsDir, CommsDir, ContextDir, StatusDir>>)
          ELSE /\ tree' = tree
               /\ resetReply'.removed = <<>>
               /\ resetReply'.status \in {400, 404}]_vars

C30_Witness ==
  /\ fsOp = "reset"
  /\ resetBody = [workspace_path |-> "W", mode |-> "clean_generated"]
  /\ resetReply.status = 200
  /\ resetReply.removed = <<SrcDir, TestsDir, CommsDir, ContextDir, StatusDir>>
  /\ fsRemoved = {p \in WorkspaceFiles : InResetTarget(p)}
  /\ tree.files[<<".elisa", "logs", "session.log">>] = "stale"
  /\ tree.files[<<"workspace.json">>] = "fresh"
  /\ tree.dirs = {ElisaDir, LogsDir}

\* C31: an answer to a gate when the slot is empty, and an answer to a
\* question for a task id with no stored resolver, change nothing of the run
\* and invoke no resolver; a resolver is invoked only while it is registered
\* and is removed by the call that invokes it, so no gate or question resolver
\* is invoked twice and a second answer finds nothing.
C31_AnswerNoops ==
  [][/\ gateResolver = NoResolver =>
          (response' = response /\ gateInvoked' = gateInvoked)
     /\ noops' # noops =>
          <<runVars, questionResolvers, invoked, gateInvoked>>'
            = <<runVars, questionResolvers, invoked, gateInvoked>>
     /\ \A w \in Waiters :
          /\ gateInvoked'[w] <= 1
          /\ gateInvoked'[w] # gateInvoked[w] =>
               (gateResolver = w /\ gateResolver' = NoResolver)
     /\ \A k \in DOMAIN invoked :
          /\ invoked'[k] <= 1
          /\ invoked'[k] # invoked[k] =>
               \E t \in Tasks :
                 questionResolvers[t] = k /\ questionResolvers'[t] = 0]_vars

C31_Witness ==
  /\ noops = {"gate", "question"}
  /\ invoked = <<1>>
  /\ gateInvoked[JudgeGate] = 1
  /\ \E t \in Tasks : gateInvoked[t] = 1
  /\ pc = "returned"

\* C32 as stated: at most one human gate is published and unanswered at any
\* time, and a waiter whose gate is unanswered has its resolver in the slot
\* (no registered resolver is replaced before it is called).
GatePending(w) ==
  /\ response[w] = "none"
  /\ IF w = JudgeGate
     THEN pc \in {"judgeGateRegister", "judgeGateWait"}
     ELSE wpc[w] = "gateWait"

C32_OneGatePending ==
  /\ Cardinality({w \in Waiters : GatePending(w)}) <= 1
  /\ \A t \in Tasks : GatePending(t) => gateResolver = t

(* C33: an external cancel during a dispatch aborts the model call in flight
   and every tool call still running: from the cancel on no tool of the
   dispatch is running, and the dispatch returns success = false with the
   summary "Agent was cancelled". *)
C33_CancelAbortsDispatch ==
  cancelled =>
    /\ running = {}
    /\ apc = "returned" => aresult = AgentResult(FALSE, CancelledSummary)

(* C34: executeToolsParallel holds exactly one result for every finished call
   of the turn, under that call's id and made for that call, in whatever
   order the calls finish; a call whose tool throws has success = false under
   its own id and leaves the results of the other calls as they are; each
   tool message pushed for the turn carries the result of its own call. *)
C34_OneResultPerCall ==
  /\ apc = "tools" =>
       LET done == DOMAIN submitted \ running
       IN  /\ DOMAIN results = {submitted[i].id : i \in done}
           /\ \A i \in done :
                results[submitted[i].id] =
                  [success |-> ~submitted[i].throws, from |-> i]
  /\ \A i \in DOMAIN turnMessages :
       turnMessages[i].content \in {<<"output", NumberToString(i)>>, <<"Error:">>}

C34_Witness ==
  /\ apc = "tools"
  /\ running = {}
  /\ Len(submitted) = 2
  /\ submitted[1].throws
  /\ ~submitted[2].throws
  /\ ~results[submitted[1].id].success
  /\ results[submitted[2].id] = [success |-> TRUE, from |-> 2]

\* the last content of the completions that was not empty, <<>> if none
RECURSIVE LastContent(_)
LastContent(cs) ==
  IF cs = <<>> THEN <<>>
  ELSE IF cs[Len(cs)] # <<>> THEN cs[Len(cs)]
  ELSE LastContent(SubSeq(cs, 1, Len(cs) - 1))

(* C35: saving the memory file is atomic: when the process stops during a
   save, the file at the memory path holds the complete document it held
   before the save or the complete new one. *)
C35_AtomicSave ==
  spc = "stopped" => memFile \in {before, stringify(saving)}

\* old occurs in content at offset k and nowhere before
FirstAt(content, old, k) ==
  /\ k + Len(old) <= Len(content)
  /\ SubSeq(content, k + 1, k + Len(old)) = old
  /\ \A j \in 0 .. k - 1 : SubSeq(content, j + 1, j + Len(old)) # old

Occurs(content, old) == \E k \in 0 .. Len(content) : FirstAt(content, old, k)

NotEdited == <<"?">>

\* the content after the first i edits, each made on the content the edits
\* before it produced; NotEdited once an old_string did not occur
RECURSIVE Evolved(_, _, _)
Evolved(content, es, i) ==
  IF i = 0 THEN content
  ELSE LET prev == Evolved(content, es, i - 1)
           e == es[i]
       IN  IF prev = NotEdited \/ ~Occurs(prev, e.old_string) THEN NotEdited
           ELSE LET k == CHOOSE k \in 0 .. Len(prev) : FirstAt(prev, e.old_string, k)
                IN  SubSeq(prev, 1, k) \o e.new_string \o
                    SubSeq(prev, k + Len(e.old_string) + 1, Len(prev))

(* C36: after a MultiEdit call the file holds the content its edits produce
   in the given order, each on the content the earlier edits left, and the
   call succeeded; or some old_string did not occur in that content, the call
   failed and the file is as it was before the call. *)
C36_MultiEditAllOrNothing ==
  edits # <<>> =>
    LET after == Evolved(ebefore, edits, Len(edits))
    IN  IF after = NotEdited
        THEN ~eresult.success /\ efile = ebefore
        ELSE eresult.success /\ efile = after

C36_Witness ==
  /\ Len(edits) = 2
  /\ ~eresult.success
  /\ Occurs(ebefore, edits[1].old_string)
  /\ edits[1].new_string # edits[1].old_string
  /\ Occurs(ebefore, edits[2].old_string)
  /\ efile = ebefore

(* C37: an answer to a gate given at any time after its human_gate event was
   published reaches the waiter of that gate: no respondToGate call finds the
   slot empty while a published gate is unanswered. *)
C37_AnswerDelivered ==
  [][("gate" \in noops' /\ "gate" \notin noops) =>
       \A w \in Waiters : ~GatePending(w)]_vars

(* C38: every session_complete event has judge.passed = true; its
   judge.overridden is true only with judge.raw_passed = false and an
   approved answer to the judge's gate; with judge.overridden = false the
   judge itself had passed. *)
C38_CompleteOnlyWhenPassed ==
  \A i \in DOMAIN events :
    events[i].type = "session_complete" =>
      LET judge == events[i].judge
      IN  /\ judge.passed
          /\ judge.overridden => ~judge.raw_passed
          /\ judge.overridden => response[JudgeGate] = "approved"
          /\ ~judge.overridden => judge.raw_passed
          /\ judge.raw_passed = judgeResult.passed

C38_Witness ==
  /\ pc = "returned"
  /\ events[Len(events)].type = "session_complete"
  /\ events[Len(events)].judge.raw_passed
  /\ ~events[Len(events)].judge.overridden
  /\ events[Len(events)].judge.passed

TerminalEvents == {i \in DOMAIN events : IsTerminalEvent(events[i])}

(* C39: a run emits at most one terminal event, never a session_complete and
   an error both; a run that has returned has emitted exactly one; and from
   the emission of the terminal event on the session state is done. *)
C39_OneTerminalEvent ==
  /\ Cardinality(TerminalEvents) <= 1
  /\ ~(HasEvent("session_complete") /\ HasEvent("error"))
  /\ pc = "returned" => Cardinality(TerminalEvents) = 1
  /\ TerminalEvents # {} => state = "done"

C39_Witness ==
  /\ pc = "returned"
  /\ state = "done"
  /\ Cardinality(TerminalEvents) = 1
  /\ events[Len(events)] = ErrorEv(err)
  /\ Len(events) > 1

(* C40: a dispatch requests at most maxTurns completions; it returns
   success = false exactly when it ended at the test of the abort signal, at
   the timeout or at a thrown error; when it ended because turn maxTurns
   still asked for tools, maxTurns completions were requested, the tool
   messages of that turn were pushed, and it returned success = true with the
   last content of the assistant as summary. *)
C40_TurnsAndOutcome ==
  /\ modelCalls <= amax
  /\ apc = "returned" =>
       (~aresult.success <=> ended \in {"cancelled", "timeout", "thrown"})
  /\ ended = "turns" =>
       /\ modelCalls = amax
       /\ turnMessages # <<>>
       /\ aresult = AgentResult(TRUE, LastContent(contents))

C40_Witness ==
  /\ ended = "turns"
  /\ amax = 2
  /\ modelCalls = 2
  /\ contents = <<Content(1), Content(2)>>
  /\ aresult = AgentResult(TRUE, Content(2))

====
